---- MODULE Spec2Model ----
(***************************************************************************)
(* Model of the Amazon Ads multi-agent workflow: the LangGraph supervisor  *)
(* graph (src/graph/workflow.py), the supervisor's routing function        *)
(* (src/agents/supervisor.py), the agent registry                          *)
(* (src/framework/agent_registry.py) and the two stages                    *)
(* (src/agents/metrics_agent.py, src/agents/insights_agent.py).            *)
(***************************************************************************)
EXTENDS Integers, Sequences, FiniteSets, TLC

VARIABLES
    state,            \* SupervisorState: the Workflow State flowing through the graph
    registry,         \* AgentRegistry._agents: the set of registered agent names
    apiKey,           \* whether ANTHROPIC_API_KEY is set in the environment
    pc,               \* the graph position: which node or edge runs next
    decision,         \* the value last returned by decide_next_node
    lastAdvice,       \* what the LLM router did in the last decide_next_node call
    crashCause,       \* the exception that aborted the run, "none" while running
    insightsOutcome,  \* how the LLM call of the last run_insights_agent ended
    metricsRuns,      \* number of completed entries of run_metrics_agent (saturating)
    insightsRuns,     \* number of completed entries of run_insights_agent (saturating)
    stageInput,       \* the dict object handed to the last stage, as it is after the call
    files,            \* the report file on disk behind each key of DATASET_MAPPING
    cache,            \* _DATA_CACHE: the tables loaded so far, by dataset key
    lastCall,         \* the aggregation function last called, with its arguments
    lastResult,       \* what that call returned or raised
    diskReads         \* the dataset keys pd.read_excel was called for, in order

vars == <<state, registry, apiKey, pc, decision, lastAdvice, crashCause,
          insightsOutcome, metricsRuns, insightsRuns, stageInput,
          files, cache, lastCall, lastResult, diskReads>>

-----------------------------------------------------------------------------
(* Bounds *)

MaxRuns == 2        \* the stage counters saturate here
MaxSpend == 1       \* account-summary spend ranges over 0..MaxSpend

-----------------------------------------------------------------------------
(* Values *)

None == [tag |-> "None"]
Str(s) == [tag |-> "str", val |-> s]
Date(s) == [tag |-> "date", val |-> s]

\* ISO strings date.fromisoformat accepts, among the strings the caller may pass
IsoStrings == {"2024-01-31"}
DateStrings == IsoStrings \cup {"", "31/01/2024"}
DateInputs == {None} \cup {Str(s) : s \in DateStrings}

UserRequests == {"Generate an Amazon Ads performance report.", ""}

\* Names an Agent may be constructed with (Agent.__init__ takes any str)
AgentNames == {"metrics_agent", "insights_agent", "human", "rogue"}

\* Names the LLM router may put in next_node (any str)
LLMAnswers == AgentNames \cup {"end", "bogus"}

\* Outcome of chain.invoke in decide_next_node: an exception or a DynamicRouteQuery
Advice == {[kind |-> "raise"]} \cup {[kind |-> "answer", next_node |-> n] : n \in LLMAnswers}

AccountSummaries == {[spend |-> n] : n \in 0..MaxSpend}

Return(v) == [kind |-> "return", value |-> v]
Raise(e) == [kind |-> "raise", exc |-> e]

-----------------------------------------------------------------------------
(* src/agents/supervisor.py *)

initialize_state(user_request, start_date, end_date) ==
    [user_request |-> user_request,
     start_date |-> start_date,
     end_date |-> end_date,
     metrics_bundle |-> None,
     insights_report |-> None]

\* a supervisor node that drops the computed bundle instead of passing it on
supervisor_node_mut(s) == [s EXCEPT !.metrics_bundle = None]

supervisor_node(s) == s

\* AgentRegistry.get_all_agents, reduced to the names
get_all_agents(reg) == reg

\* a validation that admits every node of the graph, registered or not
valid_options_mut(reg) == get_all_agents(reg) \cup {"end", "human"}

valid_options(reg) == get_all_agents(reg) \cup {"end"}

\* _get_anthropic_api_key via get_metrics_llm / get_insights_llm
_get_anthropic_api_key(key) ==
    IF key THEN Return("api_key") ELSE Raise("RuntimeError")

\* the except branch of decide_next_node
fallback_decision(s) ==
    IF s.metrics_bundle = None THEN "metrics_agent"
    ELSE IF s.insights_report = None THEN "insights_agent"
    ELSE "end"

\* get_metrics_llm() is called before the try block, so its RuntimeError
\* leaves decide_next_node; inside the try an accepted answer is returned
\* as is, and an exception or a name outside valid_options falls back.
decide_next_node(s, reg, key, adv) ==
    IF _get_anthropic_api_key(key).kind = "raise"
    THEN Raise("RuntimeError")
    ELSE IF adv.kind = "answer" /\ adv.next_node \in valid_options(reg)
         THEN Return(adv.next_node)
         ELSE Return(fallback_decision(s))

\* classification of the advisory layer's behaviour in one call
AdviceClass(reg, key, adv) ==
    IF ~key THEN "absent"
    ELSE IF adv.kind = "raise" THEN "error"
    ELSE IF adv.next_node \notin valid_options(reg) THEN "invalid"
    ELSE "accepted"

-----------------------------------------------------------------------------
(* src/graph/workflow.py *)

\* a human node that consumes the request it was asked about
_human_node_mut(s) == [s EXCEPT !.user_request = ""]

_human_node(s) == s

\* the mapping of add_conditional_edges
EdgeMap == [metrics_agent |-> "metrics_agent",
            insights_agent |-> "insights_agent",
            human |-> "human",
            end |-> "END"]

-----------------------------------------------------------------------------
(* src/agents/metrics_agent.py *)

_coerce_optional_date(value) ==
    IF value = None \/ value = Str("") THEN Return(None)
    ELSE IF value.tag = "date" THEN Return(value)
    ELSE IF value.val \in IsoStrings THEN Return(Date(value.val))
    ELSE Raise("ValueError")

\* What the tool calls of run_metrics_agent hand back: an exception, or raw
\* dictionaries that do or do not pass the pydantic models
ToolResults == {[kind |-> "raise"]} \cup
               {[kind |-> "raw", valid |-> v, account_summary |-> a] :
                    v \in BOOLEAN, a \in AccountSummaries}

\* a stage that writes the coerced dates back into the state it returns
run_metrics_agent_mut(s, tools) ==
    IF tools.kind = "raise" THEN Raise("ToolException")
    ELSE IF ~tools.valid THEN Raise("ValidationError")
    ELSE IF _coerce_optional_date(s.start_date).kind = "raise" THEN Raise("ValueError")
    ELSE IF _coerce_optional_date(s.end_date).kind = "raise" THEN Raise("ValueError")
    ELSE Return([s EXCEPT !.start_date = _coerce_optional_date(s.start_date).value,
                          !.end_date = _coerce_optional_date(s.end_date).value,
                          !.metrics_bundle =
                    [tag |-> "MetricsBundle",
                     report_metadata |->
                        [start_date |-> _coerce_optional_date(s.start_date).value,
                         end_date |-> _coerce_optional_date(s.end_date).value],
                     account_summary |-> tools.account_summary]])

\* the caller's dict after the call: `state = dict(state)` rebinds the local
\* name to a copy before the key is assigned, so the argument is not touched
metrics_input_after(s) == s

run_metrics_agent(s, tools) ==
    IF tools.kind = "raise" THEN Raise("ToolException")
    ELSE IF ~tools.valid THEN Raise("ValidationError")
    ELSE IF _coerce_optional_date(s.start_date).kind = "raise" THEN Raise("ValueError")
    ELSE IF _coerce_optional_date(s.end_date).kind = "raise" THEN Raise("ValueError")
    ELSE Return([s EXCEPT !.metrics_bundle =
                    [tag |-> "MetricsBundle",
                     report_metadata |->
                        [start_date |-> _coerce_optional_date(s.start_date).value,
                         end_date |-> _coerce_optional_date(s.end_date).value],
                     account_summary |-> tools.account_summary]])

-----------------------------------------------------------------------------
(* src/agents/insights_agent.py *)

MockSummary == "This is a MOCK executive summary generated without an LLM."

_mock_insights_report(metrics_bundle) ==
    [tag |-> "InsightsReport",
     account_summary |-> metrics_bundle.account_summary,
     natural_language_summary |-> MockSummary]

\* Outcome of the try block's LLM call: a report or an exception class
LLMReports == {[tag |-> "InsightsReport",
                account_summary |-> a,
                natural_language_summary |-> "narrative"] : a \in AccountSummaries}
LLMCallOutcomes == {Return(r) : r \in LLMReports} \cup
                   {Raise(e) : e \in {"RuntimeError", "TimeoutError", "ValueError"}}

\* the try block: get_insights_llm() raises RuntimeError without an API key
insights_try(key, call) ==
    IF _get_anthropic_api_key(key).kind = "raise" THEN Raise("RuntimeError") ELSE call

\* the caller's dict after the call: the key is assigned on new_state = dict(state)
insights_input_after(s) == s

run_insights_agent(s, key, call) ==
    IF s.metrics_bundle = None THEN Raise("ValueError")
    ELSE LET r == insights_try(key, call) IN
         IF r.kind = "return"
         THEN Return([s EXCEPT !.insights_report = r.value])
         ELSE IF r.exc = "RuntimeError"
         THEN Return([s EXCEPT !.insights_report = _mock_insights_report(s.metrics_bundle)])
         ELSE Raise(r.exc)

-----------------------------------------------------------------------------
(* Tabular data: pandas DataFrames as sequences of columns and rows *)

MantissaBits == 2   \* significand width of the floats that hold spend and sales
MaxExp == 8         \* largest binary exponent the rounding looks for
MaxRows == 3        \* rows in the sponsored_display file
MaxRowsSB == 1      \* rows in the sponsored_brands file
MaxLimit == 2       \* the result-count caps tried are 0..MaxLimit
MaxColumns == 2     \* columns in the headers handed to the column resolver
MaxReads == 3       \* reads of the data files in one process
MaxEntities == 3    \* entities in a category of the bundle handed to the summary
TopN == 1           \* entities kept per ranking; the code keeps 50

\* cell values: a number, a string, or NaN (a missing value)
Num(n) == [num |-> n]
S(s) == [str |-> s]
NaN == [nan |-> TRUE]

RECURSIVE Pow2(_)
Pow2(e) == IF e = 0 THEN 1 ELSE 2 * Pow2(e - 1)

\* round-to-nearest, ties-to-even, of a non-negative amount to a float with
\* MantissaBits significant bits (binary64 has 53); amounts are counted in
\* units of the smallest amount that occurs in the data
FRound(x) ==
    IF x < Pow2(MantissaBits) THEN x
    ELSE LET e == CHOOSE k \in 1..MaxExp :
                     Pow2(MantissaBits + k - 1) <= x /\ x < Pow2(MantissaBits + k)
             q == x \div Pow2(e)
             r == x % Pow2(e)
             half == Pow2(e - 1)
             up == r > half \/ (r = half /\ q % 2 = 1)
         IN  (IF up THEN q + 1 ELSE q) * Pow2(e)

\* float addition
FAdd(a, b) == FRound(a + b)

\* a missing value counted as one
fillna0_mut(v) == IF v = NaN THEN 1 ELSE v.num

\* Series.fillna(0)
fillna0(v) == IF v = NaN THEN 0 ELSE v.num

\* float(Series.fillna(0).sum()): accumulated in row order
RECURSIVE FloatColumnSum(_, _, _)
FloatColumnSum(rows, col, acc) ==
    IF rows = <<>> THEN acc
    ELSE FloatColumnSum(Tail(rows), col, FAdd(acc, fillna0(Head(rows)[col])))

\* int(Series.fillna(0).sum()) of a column of counts: integer-valued and far
\* below 2^53, so the sum is exact
RECURSIVE IntColumnSum(_, _)
IntColumnSum(rows, col) ==
    IF rows = <<>> THEN 0
    ELSE fillna0(Head(rows)[col]) + IntColumnSum(Tail(rows), col)

-----------------------------------------------------------------------------
(* Column names. U+20B9 is written Rs and U+2013 is written - *)

ColumnNames == {"Spend",
                "spend",
                "Sales",
                "sales",
                "Revenue",
                "revenue",
                "14 Day Total Sales (Rs)",
                "14 Day Total Sales - (Click)",
                "Orders",
                "orders",
                "Purchases",
                "14 Day Total Orders (#)",
                "14 Day Total Orders (#) - (Click)",
                "Impressions",
                "impressions",
                "Clicks",
                "clicks",
                "Campaign Name",
                "campaign_name",
                "Campaign",
                "Campaign ID",
                "campaign_id",
                "Search Term",
                "search_term",
                "Customer Search Term",
                "Ad Group Name",
                "ad_group_name",
                "Match Type",
                "match_type",
                "ASIN",
                "asin",
                "SKU",
                "sku",
                "Advertised ASIN",
                "Product Name",
                "product_name",
                "Brand",
                "brand",
                "Category",
                "category",
                "Clicks ",
                "SPEND",
                "campaign id",
                "__campaign_type",
                "__all"}

\* the characters of each column name
Chars ==
    ("Spend" :> <<"S", "p", "e", "n", "d">>) @@
    ("spend" :> <<"s", "p", "e", "n", "d">>) @@
    ("Sales" :> <<"S", "a", "l", "e", "s">>) @@
    ("sales" :> <<"s", "a", "l", "e", "s">>) @@
    ("Revenue" :> <<"R", "e", "v", "e", "n", "u", "e">>) @@
    ("revenue" :> <<"r", "e", "v", "e", "n", "u", "e">>) @@
    ("14 Day Total Sales (Rs)" :> <<"1", "4", " ", "D", "a", "y", " ", "T", "o", "t", "a", "l", " ", "S", "a", "l", "e", "s", " ", "(", "R", "s", ")">>) @@
    ("14 Day Total Sales - (Click)" :> <<"1", "4", " ", "D", "a", "y", " ", "T", "o", "t", "a", "l", " ", "S", "a", "l", "e", "s", " ", "-", " ", "(", "C", "l", "i", "c", "k", ")">>) @@
    ("Orders" :> <<"O", "r", "d", "e", "r", "s">>) @@
    ("orders" :> <<"o", "r", "d", "e", "r", "s">>) @@
    ("Purchases" :> <<"P", "u", "r", "c", "h", "a", "s", "e", "s">>) @@
    ("14 Day Total Orders (#)" :> <<"1", "4", " ", "D", "a", "y", " ", "T", "o", "t", "a", "l", " ", "O", "r", "d", "e", "r", "s", " ", "(", "#", ")">>) @@
    ("14 Day Total Orders (#) - (Click)" :> <<"1", "4", " ", "D", "a", "y", " ", "T", "o", "t", "a", "l", " ", "O", "r", "d", "e", "r", "s", " ", "(", "#", ")", " ", "-", " ", "(", "C", "l", "i", "c", "k", ")">>) @@
    ("Impressions" :> <<"I", "m", "p", "r", "e", "s", "s", "i", "o", "n", "s">>) @@
    ("impressions" :> <<"i", "m", "p", "r", "e", "s", "s", "i", "o", "n", "s">>) @@
    ("Clicks" :> <<"C", "l", "i", "c", "k", "s">>) @@
    ("clicks" :> <<"c", "l", "i", "c", "k", "s">>) @@
    ("Campaign Name" :> <<"C", "a", "m", "p", "a", "i", "g", "n", " ", "N", "a", "m", "e">>) @@
    ("campaign_name" :> <<"c", "a", "m", "p", "a", "i", "g", "n", "_", "n", "a", "m", "e">>) @@
    ("Campaign" :> <<"C", "a", "m", "p", "a", "i", "g", "n">>) @@
    ("Campaign ID" :> <<"C", "a", "m", "p", "a", "i", "g", "n", " ", "I", "D">>) @@
    ("campaign_id" :> <<"c", "a", "m", "p", "a", "i", "g", "n", "_", "i", "d">>) @@
    ("Search Term" :> <<"S", "e", "a", "r", "c", "h", " ", "T", "e", "r", "m">>) @@
    ("search_term" :> <<"s", "e", "a", "r", "c", "h", "_", "t", "e", "r", "m">>) @@
    ("Customer Search Term" :> <<"C", "u", "s", "t", "o", "m", "e", "r", " ", "S", "e", "a", "r", "c", "h", " ", "T", "e", "r", "m">>) @@
    ("Ad Group Name" :> <<"A", "d", " ", "G", "r", "o", "u", "p", " ", "N", "a", "m", "e">>) @@
    ("ad_group_name" :> <<"a", "d", "_", "g", "r", "o", "u", "p", "_", "n", "a", "m", "e">>) @@
    ("Match Type" :> <<"M", "a", "t", "c", "h", " ", "T", "y", "p", "e">>) @@
    ("match_type" :> <<"m", "a", "t", "c", "h", "_", "t", "y", "p", "e">>) @@
    ("ASIN" :> <<"A", "S", "I", "N">>) @@
    ("asin" :> <<"a", "s", "i", "n">>) @@
    ("SKU" :> <<"S", "K", "U">>) @@
    ("sku" :> <<"s", "k", "u">>) @@
    ("Advertised ASIN" :> <<"A", "d", "v", "e", "r", "t", "i", "s", "e", "d", " ", "A", "S", "I", "N">>) @@
    ("Product Name" :> <<"P", "r", "o", "d", "u", "c", "t", " ", "N", "a", "m", "e">>) @@
    ("product_name" :> <<"p", "r", "o", "d", "u", "c", "t", "_", "n", "a", "m", "e">>) @@
    ("Brand" :> <<"B", "r", "a", "n", "d">>) @@
    ("brand" :> <<"b", "r", "a", "n", "d">>) @@
    ("Category" :> <<"C", "a", "t", "e", "g", "o", "r", "y">>) @@
    ("category" :> <<"c", "a", "t", "e", "g", "o", "r", "y">>) @@
    ("Clicks " :> <<"C", "l", "i", "c", "k", "s", " ">>) @@
    ("SPEND" :> <<"S", "P", "E", "N", "D">>) @@
    ("campaign id" :> <<"c", "a", "m", "p", "a", "i", "g", "n", " ", "i", "d">>) @@
    ("__campaign_type" :> <<"_", "_", "c", "a", "m", "p", "a", "i", "g", "n", "_", "t", "y", "p", "e">>) @@
    ("__all" :> <<"_", "_", "a", "l", "l">>)

LowerOf ==
    ("A" :> "a") @@ ("B" :> "b") @@ ("C" :> "c") @@ ("D" :> "d") @@ ("E" :> "e") @@ ("F" :> "f") @@ ("G" :> "g") @@ ("H" :> "h") @@ ("I" :> "i") @@ ("J" :> "j") @@ ("K" :> "k") @@ ("L" :> "l") @@ ("M" :> "m") @@ ("N" :> "n") @@ ("O" :> "o") @@ ("P" :> "p") @@ ("Q" :> "q") @@ ("R" :> "r") @@ ("S" :> "s") @@ ("T" :> "t") @@ ("U" :> "u") @@ ("V" :> "v") @@ ("W" :> "w") @@ ("X" :> "x") @@ ("Y" :> "y") @@ ("Z" :> "z")

Lower(c) == IF c \in DOMAIN LowerOf THEN LowerOf[c] ELSE c

\* str.lower().replace(" ", "").replace("_", "")
RECURSIVE NormChars(_)
NormChars(cs) ==
    IF cs = <<>> THEN <<>>
    ELSE IF Head(cs) \in {" ", "_"} THEN NormChars(Tail(cs))
    ELSE <<Lower(Head(cs))>> \o NormChars(Tail(cs))

NormTable == [n \in ColumnNames |-> NormChars(Chars[n])]

\* str.strip()
RECURSIVE LStrip(_)
LStrip(cs) == IF cs # <<>> /\ Head(cs) = " " THEN LStrip(Tail(cs)) ELSE cs
RECURSIVE RStrip(_)
RStrip(cs) == IF cs # <<>> /\ cs[Len(cs)] = " " THEN RStrip(SubSeq(cs, 1, Len(cs) - 1)) ELSE cs

StripTable == [n \in ColumnNames |->
                 CHOOSE m \in ColumnNames : Chars[m] = LStrip(RStrip(Chars[n]))]

SetMax(xs) == CHOOSE x \in xs : \A y \in xs : y <= x
SetMin(xs) == CHOOSE x \in xs : \A y \in xs : x <= y

-----------------------------------------------------------------------------
(* src/tools/metrics_tools.py: column resolution and base metrics *)

\* the frame with its columns renamed, position by position; of two columns
\* that get the same name the later one is read
RenameColumns(df, newcols) ==
    [columns |-> newcols,
     rows |-> [r \in 1..Len(df.rows) |->
                 [c \in {newcols[i] : i \in 1..Len(newcols)} |->
                     df.rows[r][df.columns[SetMax({j \in 1..Len(newcols) : newcols[j] = c})]]]]]

\* [str(c).strip() for c in df.columns] on a copy of the frame
_normalize_columns(df) ==
    RenameColumns(df, [i \in 1..Len(df.columns) |-> StripTable[df.columns[i]]])

\* the columns spelled exactly as the candidate
Matches_mut(columns, cand, norm) ==
    {k \in 1..Len(columns) : columns[k] = cand}

\* the positions of the columns whose normalized key is the candidate's
Matches(columns, cand, norm) ==
    {k \in 1..Len(columns) : norm[columns[k]] = norm[cand]}

\* the dict comprehension keeps, for each normalized key, the last column
\* with that key; the first candidate whose key is present wins
FirstExisting(columns, candidates, norm) ==
    IF \A j \in 1..Len(candidates) : Matches(columns, candidates[j], norm) = {}
    THEN None
    ELSE Str(columns[SetMax(Matches(columns,
                 candidates[SetMin({j \in 1..Len(candidates) :
                                       Matches(columns, candidates[j], norm) # {}})],
                 norm))])

_first_existing_column(columns, candidates) ==
    FirstExisting(columns, candidates, NormTable)

\* the name variants tried for each required numeric field
NumericCandidates ==
    [spend |-> <<"Spend", "spend">>,
     sales |-> <<"Sales", "sales", "Revenue", "revenue",
                 "14 Day Total Sales (Rs)", "14 Day Total Sales - (Click)">>,
     orders |-> <<"Orders", "orders", "Purchases",
                  "14 Day Total Orders (#)", "14 Day Total Orders (#) - (Click)">>,
     impressions |-> <<"Impressions", "impressions">>,
     clicks |-> <<"Clicks", "clicks">>]

\* the ValueError names only the first field not found
NumericOrRaise_mut(found) ==
    IF \E name \in DOMAIN found : found[name] = None
    THEN [kind |-> "raise", exc |-> "ValueError",
          missing |-> SubSeq(SelectSeq(<<"spend", "sales", "orders", "impressions", "clicks">>,
                                       LAMBDA name : found[name] = None), 1, 1)]
    ELSE Return([name \in DOMAIN found |-> found[name].val])

\* the five columns, or the ValueError that names the fields not found
NumericOrRaise(found) ==
    IF \E name \in DOMAIN found : found[name] = None
    THEN [kind |-> "raise", exc |-> "ValueError",
          missing |-> SelectSeq(<<"spend", "sales", "orders", "impressions", "clicks">>,
                                LAMBDA name : found[name] = None)]
    ELSE Return([name \in DOMAIN found |-> found[name].val])

_extract_numeric_columns(columns) ==
    NumericOrRaise([name \in DOMAIN NumericCandidates |->
                       _first_existing_column(columns, NumericCandidates[name])])

\* ratios are kept as fractions in lowest terms
RECURSIVE Gcd(_, _)
Gcd(a, b) == IF b = 0 THEN a ELSE Gcd(b, a % b)
Frac(n, d) == [n |-> n \div Gcd(n, d), d |-> d \div Gcd(n, d)]
Zero == [n |-> 0, d |-> 1]

\* float(numerator) / float(denominator); a fraction with d = 0 stands for the
\* ZeroDivisionError (or the inf/NaN of numpy floats) of a division by zero
Div(n, d) == IF d = 0 THEN [n |-> n, d |-> 0] ELSE Frac(n, d)

\* a division without the zero guard
_safe_div_mut(numerator, denominator) == Div(numerator, denominator)

_safe_div(numerator, denominator) ==
    IF denominator # 0 THEN Div(numerator, denominator) ELSE Zero

\* the five sums with the five derived ratios
BaseMetrics(spend, sales, orders, impressions, clicks) ==
    [spend |-> spend,
     sales |-> sales,
     orders |-> orders,
     impressions |-> impressions,
     clicks |-> clicks,
     ctr |-> _safe_div(clicks, impressions),
     cvr |-> _safe_div(orders, clicks),
     cpc |-> _safe_div(spend, clicks),
     acos |-> _safe_div(spend, sales),
     roas |-> _safe_div(sales, spend)]

\* the sums over the resolved columns; the ValueError is passed on
SumColumns(cols, rows) ==
    IF cols.kind = "raise" THEN cols
    ELSE Return(BaseMetrics(FloatColumnSum(rows, cols.value.spend, 0),
                            FloatColumnSum(rows, cols.value.sales, 0),
                            IntColumnSum(rows, cols.value.orders),
                            IntColumnSum(rows, cols.value.impressions),
                            IntColumnSum(rows, cols.value.clicks)))

_aggregate_base_metrics(columns, rows) ==
    SumColumns(_extract_numeric_columns(columns), rows)

-----------------------------------------------------------------------------
(* src/tools/data_loader_tools.py *)

DATASET_MAPPING == [sponsored_display |-> "SD_AdvertisedProduct.xlsx",
                    sponsored_brands |-> "SB_SearchTerm_Daily.xlsx"]

\* dataset names a caller may pass
DatasetNames == {"sponsored_display", "sponsored_brands", "Sponsored Display", "unknown"}

DatasetChars ==
    ("sponsored_display" :> <<"s","p","o","n","s","o","r","e","d","_","d","i","s","p","l","a","y">>) @@
    ("sponsored_brands" :> <<"s","p","o","n","s","o","r","e","d","_","b","r","a","n","d","s">>) @@
    ("Sponsored Display" :> <<"S","p","o","n","s","o","r","e","d"," ","D","i","s","p","l","a","y">>) @@
    ("unknown" :> <<"u","n","k","n","o","w","n">>)

\* dataset_name.lower().replace(" ", "_").strip()
DatasetKeyChars(cs) ==
    LStrip(RStrip([i \in 1..Len(cs) |-> IF cs[i] = " " THEN "_" ELSE Lower(cs[i])]))

\* the key of DATASET_MAPPING a name normalizes to, or None
DatasetKeyTable ==
    [n \in DatasetNames |->
        IF \E k \in DOMAIN DATASET_MAPPING : DatasetChars[k] = DatasetKeyChars(DatasetChars[n])
        THEN Str(CHOOSE k \in DOMAIN DATASET_MAPPING :
                    DatasetChars[k] = DatasetKeyChars(DatasetChars[n]))
        ELSE None]

\* sub in name
Contains(cs, sub) ==
    \E i \in 0..(Len(cs) - Len(sub)) : SubSeq(cs, i + 1, i + Len(sub)) = sub

EmptyCache == [k \in {} |-> None]

\* return df without keeping it in _DATA_CACHE
StoreFrame_mut(key, df, dataCache) ==
    [result |-> Return(df), cache |-> dataCache, read |-> TRUE]

\* _DATA_CACHE[key] = df; return df
StoreFrame(key, df, dataCache) ==
    [result |-> Return(df),
     cache |-> [k \in DOMAIN dataCache \cup {key} |-> IF k = key THEN df ELSE dataCache[k]],
     read |-> TRUE]

\* an unknown name and an unreadable file load an empty sponsored_display
\* report instead of raising
LoadKey_mut(key, dataCache, disk) ==
    IF key = None \/ (key.val \notin DOMAIN dataCache /\ disk[key.val].kind = "corrupt")
    THEN [result |-> Return([columns |-> <<"Campaign Name", "Spend", "Sales", "Orders",
                                           "Impressions", "Clicks">>,
                             rows |-> <<[c \in {"Campaign Name", "Spend", "Sales", "Orders",
                                                "Impressions", "Clicks"} |->
                                            IF c = "Campaign Name" THEN [str |-> "C1"]
                                            ELSE [num |-> 1]]>>]),
          cache |-> dataCache, read |-> FALSE]
    ELSE IF key.val \in DOMAIN dataCache
    THEN [result |-> Return(dataCache[key.val]), cache |-> dataCache, read |-> FALSE]
    ELSE IF disk[key.val].kind = "missing"
    THEN [result |-> Raise("FileNotFoundError"), cache |-> dataCache, read |-> FALSE]
    ELSE StoreFrame(key.val, _normalize_columns(disk[key.val].df), dataCache)

\* the body of _load_dataframe once the name is normalized
LoadKey(key, dataCache, disk) ==
    IF key = None
    THEN [result |-> Raise("ValueError"), cache |-> dataCache, read |-> FALSE]
    ELSE IF key.val \in DOMAIN dataCache
    THEN [result |-> Return(dataCache[key.val]), cache |-> dataCache, read |-> FALSE]
    ELSE IF disk[key.val].kind = "missing"
    THEN [result |-> Raise("FileNotFoundError"), cache |-> dataCache, read |-> FALSE]
    ELSE IF disk[key.val].kind = "corrupt"
    THEN [result |-> Raise("RuntimeError"), cache |-> dataCache, read |-> TRUE]
    ELSE StoreFrame(key.val, _normalize_columns(disk[key.val].df), dataCache)

\* an unreadable file leaves an empty table cached under its key
_load_dataframe_mut(dataset_name, dataCache, disk) ==
    IF LoadKey(DatasetKeyTable[dataset_name], dataCache, disk).result = Raise("RuntimeError")
    THEN [result |-> Raise("RuntimeError"),
          cache |-> StoreFrame(DatasetKeyTable[dataset_name].val,
                               [columns |-> <<>>, rows |-> <<>>], dataCache).cache,
          read |-> TRUE]
    ELSE LoadKey(DatasetKeyTable[dataset_name], dataCache, disk)

\* _load_dataframe: the frame or the exception, the cache afterwards, and
\* whether pd.read_excel was called
_load_dataframe(dataset_name, dataCache, disk) ==
    LoadKey(DatasetKeyTable[dataset_name], dataCache, disk)

-----------------------------------------------------------------------------
(* src/tools/metrics_tools.py: frames, grouping, sorting *)

SeqToSet(s) == {s[i] : i \in 1..Len(s)}

\* df[col] = value on every row; a new column goes last
SetColumn(df, col, value) ==
    [columns |-> IF col \in SeqToSet(df.columns) THEN df.columns ELSE Append(df.columns, col),
     rows |-> [r \in 1..Len(df.rows) |->
                 [c \in SeqToSet(df.columns) \cup {col} |->
                     IF c = col THEN value ELSE df.rows[r][c]]]]

\* the campaign type a dataset name is tagged with
CampaignTypeTable ==
    [n \in DatasetNames |->
        IF Contains(DatasetChars[n], DatasetChars["sponsored_display"]) THEN "SD"
        ELSE IF Contains(DatasetChars[n], DatasetChars["sponsored_brands"]) THEN "SB"
        ELSE "Other"]

\* the frame appended for a dataset: normalized, and tagged with the
\* campaign type in _compute_campaign_metrics
TaggedFrame(name, df, tagType) ==
    IF tagType THEN SetColumn(df, "__campaign_type", S(CampaignTypeTable[name])) ELSE df

\* the loop `for name in dataset_names: try: ... except Exception: continue`;
\* l is what _load_dataframe did for the first name
RECURSIVE LoadFrames(_, _, _, _, _)
LoadStep(dataset_names, disk, tagType, acc, l) ==
    LoadFrames(Tail(dataset_names), l.cache, disk, tagType,
               [frames |-> IF l.result.kind = "raise" THEN acc.frames
                           ELSE Append(acc.frames,
                                       TaggedFrame(Head(dataset_names),
                                                   _normalize_columns(l.result.value),
                                                   tagType)),
                reads |-> IF l.read
                          THEN Append(acc.reads, DatasetKeyTable[Head(dataset_names)].val)
                          ELSE acc.reads])

LoadFrames(dataset_names, dataCache, disk, tagType, acc) ==
    IF dataset_names = <<>> THEN [frames |-> acc.frames, cache |-> dataCache, reads |-> acc.reads]
    ELSE LoadStep(dataset_names, disk, tagType, acc,
                  _load_dataframe(Head(dataset_names), dataCache, disk))

\* pd.concat(frames, ignore_index=True): the union of the columns in order of
\* first appearance, NaN where a frame lacks a column
RECURSIVE ConcatColumns(_, _)
ConcatColumns(frames, acc) ==
    IF frames = <<>> THEN acc
    ELSE ConcatColumns(Tail(frames),
                       acc \o SelectSeq(Head(frames).columns, LAMBDA c : c \notin SeqToSet(acc)))

RECURSIVE ConcatRows(_, _)
ConcatRows(frames, columns) ==
    IF frames = <<>> THEN <<>>
    ELSE LET f == Head(frames) IN
         [r \in 1..Len(f.rows) |->
             [c \in SeqToSet(columns) |->
                 IF c \in SeqToSet(f.columns) THEN f.rows[r][c] ELSE NaN]]
         \o ConcatRows(Tail(frames), columns)

concat(frames) ==
    LET columns == ConcatColumns(frames, <<>>) IN
    [columns |-> columns, rows |-> ConcatRows(frames, columns)]

\* the order of str values in Python, for the key strings of the data
KeyStringOrder == <<"A1", "C1", "C2", "Other", "SB", "SD", "nan", "t1", "t2">>
KeyRank(s) == CHOOSE i \in 1..Len(KeyStringOrder) : KeyStringOrder[i] = s

\* the order groupby sorts key values in: NaN last
CellLess(a, b) ==
    IF a = NaN THEN FALSE
    ELSE IF b = NaN THEN TRUE
    ELSE IF "num" \in DOMAIN a THEN a.num < b.num
    ELSE KeyRank(a.str) < KeyRank(b.str)

RECURSIVE KeyLess(_, _)
KeyLess(k1, k2) ==
    IF k1 = <<>> THEN FALSE
    ELSE IF Head(k1) # Head(k2) THEN CellLess(Head(k1), Head(k2))
    ELSE KeyLess(Tail(k1), Tail(k2))

RECURSIVE SortKeys(_)
SortKeys(keys) ==
    IF keys = {} THEN <<>>
    ELSE LET m == CHOOSE k \in keys : \A o \in keys \ {k} : KeyLess(k, o)
         IN  <<m>> \o SortKeys(keys \ {m})

RowKey(row, group_keys) == [i \in 1..Len(group_keys) |-> row[group_keys[i]]]

\* the groups in the order their keys first appear in the frame
groupby_mut(df, group_keys) ==
    LET firsts == SelectSeq([r \in 1..Len(df.rows) |-> r],
                      LAMBDA r : \A q \in 1..(r - 1) :
                          RowKey(df.rows[q], group_keys) # RowKey(df.rows[r], group_keys))
    IN  [g \in 1..Len(firsts) |->
            [key_vals |-> RowKey(df.rows[firsts[g]], group_keys),
             rows |-> SelectSeq(df.rows, LAMBDA row :
                          RowKey(row, group_keys) = RowKey(df.rows[firsts[g]], group_keys))]]

\* df.groupby(group_keys, dropna=False): the groups in sorted key order, each
\* with its rows in frame order
groupby(df, group_keys) ==
    LET keys == SortKeys({RowKey(df.rows[r], group_keys) : r \in 1..Len(df.rows)}) IN
    [g \in 1..Len(keys) |->
        [key_vals |-> keys[g],
         rows |-> SelectSeq(df.rows, LAMBDA row : RowKey(row, group_keys) = keys[g])]]

\* str(value) of a key value
PyStr(v) == IF v = NaN THEN "nan" ELSE v.str

\* key_map.get(col) for a resolved column
KeyValue(group_keys, key_vals, col) ==
    key_vals[CHOOSE i \in 1..Len(group_keys) : group_keys[i] = col]

\* str(key_map.get(col)) if col else None
KeyField(group_keys, key_vals, col) ==
    IF col = None THEN None ELSE Str(PyStr(KeyValue(group_keys, key_vals, col.val)))

AmountFields == {"spend", "sales", "orders", "impressions", "clicks"}
RatioFields == {"ctr", "cvr", "cpc", "acos", "roas"}

\* float(x.get(sort_by, 0.0) or 0.0), as a fraction, for a numeric field or a
\* field the entity does not have
SortKey(x, sort_by) ==
    IF sort_by \in RatioFields THEN x[sort_by]
    ELSE IF sort_by \in AmountFields THEN [n |-> x[sort_by], d |-> 1]
    ELSE Zero

FracLess(a, b) == a.n * b.d < b.n * a.d

\* x goes before y also when their sort values are equal
Before_mut(x, y, sort_by, ascending) ==
    IF ascending THEN ~FracLess(SortKey(y, sort_by), SortKey(x, sort_by))
    ELSE ~FracLess(SortKey(x, sort_by), SortKey(y, sort_by))

\* x goes before y in sorted(..., reverse=not ascending)
Before(x, y, sort_by, ascending) ==
    IF ascending THEN FracLess(SortKey(x, sort_by), SortKey(y, sort_by))
    ELSE FracLess(SortKey(y, sort_by), SortKey(x, sort_by))

RECURSIVE InsertSorted(_, _, _, _)
InsertSorted(s, x, sort_by, ascending) ==
    IF s = <<>> THEN <<x>>
    ELSE IF Before(x, Head(s), sort_by, ascending) THEN <<x>> \o s
    ELSE <<Head(s)>> \o InsertSorted(Tail(s), x, sort_by, ascending)

\* sorted(results, key=..., reverse=not ascending): a stable sort
RECURSIVE sorted(_, _, _, _)
sorted(results, sort_by, ascending, acc) ==
    IF results = <<>> THEN acc
    ELSE sorted(Tail(results), sort_by, ascending,
                InsertSorted(acc, Head(results), sort_by, ascending))

\* sorted_results[:limit] for limit >= 0
Slice(s, limit) == SubSeq(s, 1, IF limit < Len(s) THEN limit ELSE Len(s))

-----------------------------------------------------------------------------
(* src/tools/metrics_tools.py: the four aggregations *)

\* BasePerformanceMetrics: every field is >= 0
BaseValid(base) ==
    /\ \A f \in AmountFields : base[f] >= 0
    /\ \A f \in RatioFields : base[f].n >= 0

CampaignType == {"SD", "SB"}

CampaignMetrics(campaign_id, campaign_name, campaign_type, base) ==
    IF campaign_type.str \notin CampaignType \/ ~BaseValid(base)
    THEN Raise("ValidationError")
    ELSE Return([campaign_id |-> campaign_id,
                 campaign_name |-> campaign_name,
                 campaign_type |-> Str(campaign_type.str),
                 portfolio_name |-> None] @@ base)

SearchTermMetrics(search_term, match_type, campaign_id, campaign_name, ad_group_name, base) ==
    IF ~BaseValid(base) THEN Raise("ValidationError")
    ELSE Return([search_term |-> search_term,
                 match_type |-> match_type,
                 campaign_id |-> campaign_id,
                 campaign_name |-> campaign_name,
                 ad_group_name |-> ad_group_name] @@ base)

ProductMetrics(asin, sku, product_name, brand, category, campaign_id, campaign_name, base) ==
    IF ~BaseValid(base) THEN Raise("ValidationError")
    ELSE Return([asin |-> asin,
                 sku |-> sku,
                 product_name |-> product_name,
                 brand |-> brand,
                 category |-> category,
                 campaign_id |-> campaign_id,
                 campaign_name |-> campaign_name] @@ base)

\* AccountSummary(): every amount 0, every ratio 0.0, every count 0
DefaultAccountSummary ==
    [a \in AmountFields |-> 0] @@ [r \in RatioFields |-> Zero] @@
    [total_campaigns |-> 0, total_products |-> 0, total_search_terms |-> 0,
     start_date |-> None, end_date |-> None]

\* the optional columns that resolved, in the order they are appended
ResolvedKeys(cols) ==
    LET kept == SelectSeq(cols, LAMBDA c : c # None) IN
    [i \in 1..Len(kept) |-> kept[i].val]

\* the loop over the groups leaving out the last model it built
GroupResults_mut(built) ==
    IF \E g \in 1..Len(built) : built[g].kind = "raise"
    THEN Raise("ValidationError")
    ELSE LET kept == SelectSeq(built, LAMBDA b : b.kind = "return") IN
         Return([i \in 1..(Len(kept) - 1) |-> kept[i].value])

\* the loop over the groups: a group whose numeric columns do not resolve is
\* skipped, a model that fails validation raises
\* built[g] is the model built for group g by the caller
GroupResults(built) ==
    IF \E g \in 1..Len(built) : built[g].kind = "raise"
    THEN Raise("ValidationError")
    ELSE LET kept == SelectSeq(built, LAMBDA b : b.kind = "return") IN
         Return([i \in 1..Len(kept) |-> kept[i].value])

Skip == [kind |-> "skip"]

\* a campaign column resolved: one entity per group of the key columns
CampaignResults(df, campaign_id_col, campaign_name_col) ==
    IF campaign_name_col = None /\ campaign_id_col = None THEN None
    ELSE LET group_keys == ResolvedKeys(<<campaign_id_col, campaign_name_col,
                               IF "__campaign_type" \in SeqToSet(df.columns)
                               THEN Str("__campaign_type") ELSE None>>)
             grouped == groupby(df, group_keys)
         IN  GroupResults([g \in 1..Len(grouped) |->
                 LET base == _aggregate_base_metrics(df.columns, grouped[g].rows)
                     key_vals == grouped[g].key_vals
                 IN  IF base.kind = "raise" THEN Skip
                     ELSE CampaignMetrics(
                              KeyField(group_keys, key_vals, campaign_id_col),
                              KeyField(group_keys, key_vals, campaign_name_col),
                              KeyValue(group_keys, key_vals, "__campaign_type"),
                              base.value)])

\* the entities of _compute_campaign_metrics before sorting, or None when the
\* function returns [] early
CampaignEntities(frames) ==
    IF frames = <<>> THEN None
    ELSE CampaignResults(concat(frames),
             _first_existing_column(concat(frames).columns,
                 <<"Campaign ID", "campaign_id">>),
             _first_existing_column(concat(frames).columns,
                 <<"Campaign Name", "campaign_name", "Campaign">>))

\* sorted(results, ...)[:limit] of the entities, [] on an early return
SortAndLimit(entities, sort_by, ascending, limit) ==
    IF entities = None THEN Return(<<>>)
    ELSE IF entities.kind = "raise" THEN entities
    ELSE Return(Slice(sorted(entities.value, sort_by, ascending, <<>>), limit))

NoLoads == [frames |-> <<>>, reads |-> <<>>]

\* what a call hands back: the value or exception, _DATA_CACHE afterwards,
\* and the keys read from disk
Outcome(result, loaded) ==
    [result |-> result, cache |-> loaded.cache, reads |-> loaded.reads]

CampaignCall(loaded, sort_by, ascending, limit) ==
    Outcome(SortAndLimit(CampaignEntities(loaded.frames), sort_by, ascending, limit), loaded)

_compute_campaign_metrics(dataset_names, sort_by, ascending, limit, dataCache, disk) ==
    CampaignCall(LoadFrames(dataset_names, dataCache, disk, TRUE, NoLoads),
                 sort_by, ascending, limit)

SearchTermResults(df, search_term_col, campaign_id_col, campaign_name_col, ad_group_name_col, match_type_col) ==
    IF search_term_col = None THEN None
    ELSE LET group_keys == ResolvedKeys(<<search_term_col, campaign_id_col,
                               campaign_name_col, ad_group_name_col, match_type_col>>)
             grouped == groupby(df, group_keys)
         IN  GroupResults([g \in 1..Len(grouped) |->
                 LET base == _aggregate_base_metrics(df.columns, grouped[g].rows)
                     key_vals == grouped[g].key_vals
                 IN  IF base.kind = "raise" THEN Skip
                     ELSE SearchTermMetrics(
                              KeyField(group_keys, key_vals, search_term_col),
                              KeyField(group_keys, key_vals, match_type_col),
                              KeyField(group_keys, key_vals, campaign_id_col),
                              KeyField(group_keys, key_vals, campaign_name_col),
                              KeyField(group_keys, key_vals, ad_group_name_col),
                              base.value)])

SearchTermEntities(frames) ==
    IF frames = <<>> THEN None
    ELSE SearchTermResults(concat(frames),
             _first_existing_column(concat(frames).columns,
                 <<"Search Term", "search_term", "Customer Search Term">>),
             _first_existing_column(concat(frames).columns,
                 <<"Campaign ID", "campaign_id">>),
             _first_existing_column(concat(frames).columns,
                 <<"Campaign Name", "campaign_name", "Campaign">>),
             _first_existing_column(concat(frames).columns,
                 <<"Ad Group Name", "ad_group_name">>),
             _first_existing_column(concat(frames).columns,
                 <<"Match Type", "match_type">>))

SearchTermCall(loaded, sort_by, ascending, limit) ==
    Outcome(SortAndLimit(SearchTermEntities(loaded.frames), sort_by, ascending, limit), loaded)

_compute_search_term_metrics(dataset_names, sort_by, ascending, limit, dataCache, disk) ==
    SearchTermCall(LoadFrames(dataset_names, dataCache, disk, FALSE, NoLoads),
                   sort_by, ascending, limit)

\* str(key_map.get(col)) for brand and category, which are not group keys:
\* key_map.get gives None
NonKey(col) == IF col = None THEN None ELSE Str("None")

\* the entities over the frame df, grouped by group_keys
ProductGroups(df, group_keys, asin_col, sku_col, product_name_col, brand_col, category_col, campaign_id_col, campaign_name_col) ==
    LET grouped == groupby(df, group_keys) IN
    GroupResults([g \in 1..Len(grouped) |->
        LET base == _aggregate_base_metrics(df.columns, grouped[g].rows)
            key_vals == grouped[g].key_vals
        IN  IF base.kind = "raise" THEN Skip
            ELSE ProductMetrics(
                     KeyField(group_keys, key_vals, asin_col),
                     KeyField(group_keys, key_vals, sku_col),
                     KeyField(group_keys, key_vals, product_name_col),
                     NonKey(brand_col),
                     NonKey(category_col),
                     KeyField(group_keys, key_vals, campaign_id_col),
                     KeyField(group_keys, key_vals, campaign_name_col),
                     base.value)])

\* no key column resolved: df["__all"] = 1 and one catch-all group
ProductResults(df, asin_col, sku_col, product_name_col, brand_col, category_col, campaign_id_col, campaign_name_col) ==
    IF ResolvedKeys(<<asin_col, sku_col, product_name_col,
                      campaign_id_col, campaign_name_col>>) = <<>>
    THEN ProductGroups(SetColumn(df, "__all", Num(1)), <<"__all">>,
                       asin_col, sku_col, product_name_col, brand_col, category_col,
                       campaign_id_col, campaign_name_col)
    ELSE ProductGroups(df, ResolvedKeys(<<asin_col, sku_col, product_name_col,
                                          campaign_id_col, campaign_name_col>>),
                       asin_col, sku_col, product_name_col, brand_col, category_col,
                       campaign_id_col, campaign_name_col)

ProductEntities(frames) ==
    IF frames = <<>> THEN None
    ELSE ProductResults(concat(frames),
             _first_existing_column(concat(frames).columns, <<"ASIN", "asin">>),
             _first_existing_column(concat(frames).columns, <<"SKU", "sku">>),
             _first_existing_column(concat(frames).columns,
                 <<"Advertised ASIN", "Product Name", "product_name">>),
             _first_existing_column(concat(frames).columns, <<"Brand", "brand">>),
             _first_existing_column(concat(frames).columns, <<"Category", "category">>),
             _first_existing_column(concat(frames).columns,
                 <<"Campaign ID", "campaign_id">>),
             _first_existing_column(concat(frames).columns,
                 <<"Campaign Name", "campaign_name", "Campaign">>))

ProductCall(loaded, sort_by, ascending, limit) ==
    Outcome(SortAndLimit(ProductEntities(loaded.frames), sort_by, ascending, limit), loaded)

_compute_product_metrics(dataset_names, sort_by, ascending, limit, dataCache, disk) ==
    ProductCall(LoadFrames(dataset_names, dataCache, disk, FALSE, NoLoads),
                sort_by, ascending, limit)

\* Series.nunique(): the distinct values that are not NaN
nunique(df, col) ==
    IF col = None THEN 0
    ELSE Cardinality({df.rows[r][col.val] : r \in 1..Len(df.rows)} \ {NaN})

\* the summary over the concatenated frame, the default one on a ValueError
SummaryOf(full_df, base, camp_col, asin_col, term_col) ==
    IF base.kind = "raise" THEN DefaultAccountSummary
    ELSE [total_campaigns |-> nunique(full_df, camp_col),
          total_products |-> nunique(full_df, asin_col),
          total_search_terms |-> nunique(full_df, term_col),
          start_date |-> None, end_date |-> None] @@ base.value

AccountSummary(frames) ==
    IF frames = <<>> THEN DefaultAccountSummary
    ELSE SummaryOf(concat(frames),
             _aggregate_base_metrics(concat(frames).columns, concat(frames).rows),
             _first_existing_column(concat(frames).columns,
                 <<"Campaign ID", "campaign_id", "Campaign Name", "campaign_name">>),
             _first_existing_column(concat(frames).columns,
                 <<"ASIN", "asin", "Advertised ASIN">>),
             _first_existing_column(concat(frames).columns,
                 <<"Search Term", "search_term", "Customer Search Term">>))

AccountCall(loaded) == Outcome(Return(AccountSummary(loaded.frames)), loaded)

_compute_account_summary(dataset_names, dataCache, disk) ==
    AccountCall(LoadFrames(dataset_names, dataCache, disk, FALSE, NoLoads))

-----------------------------------------------------------------------------
(* The data files and the calls of the aggregation functions *)

Row(columns, values) ==
    [c \in SeqToSet(columns) |-> values[CHOOSE i \in 1..Len(columns) : columns[i] = c]]

\* headers as in the report files; "Clicks " carries a trailing blank
SDColumns == <<"Campaign Name", "ASIN", "Spend", "14 Day Total Sales (Rs)",
               "14 Day Total Orders (#)", "Impressions", "Clicks ">>
SDColumnsNoCampaign == <<"Spend", "14 Day Total Sales (Rs)",
                         "14 Day Total Orders (#)", "Impressions", "Clicks ">>
SDColumnsNoSpend == <<"Campaign Name", "ASIN", "14 Day Total Sales (Rs)",
                      "14 Day Total Orders (#)", "Impressions", "Clicks ">>
SBColumns == <<"Search Term", "Campaign Name", "Spend", "14 Day Total Sales - (Click)",
               "14 Day Total Orders (#) - (Click)", "Impressions", "Clicks">>

\* the rows a sponsored_display file is made of: amounts are non-negative,
\* some are zero, some cells are missing
SDRows ==
    {Row(SDColumns, <<S("C1"), S("A1"), Num(4), Num(1), Num(1), Num(2), Num(1)>>),
     Row(SDColumns, <<S("C1"), S("A1"), Num(1), Num(0), Num(0), Num(0), Num(0)>>),
     Row(SDColumns, <<S("C2"), S("A1"), Num(1), Num(1), NaN, Num(1), Num(1)>>),
     Row(SDColumns, <<NaN, NaN, NaN, Num(1), Num(0), Num(1), Num(0)>>)}

SBRows ==
    {Row(SBColumns, <<S("t1"), S("C2"), Num(1), Num(1), Num(1), Num(1), Num(1)>>)}

\* the tables of at most n rows drawn from a set of rows
Tables(columns, rows, n) ==
    {[columns |-> columns, rows |-> t] : t \in UNION {[1..k -> rows] : k \in 0..n}}

Missing == [kind |-> "missing"]
Corrupt == [kind |-> "corrupt"]
Table(df) == [kind |-> "table", df |-> df]

SDFiles ==
    {Missing, Corrupt}
    \cup {Table(df) : df \in Tables(SDColumns, SDRows, MaxRows)}
    \cup {Table([columns |-> SDColumnsNoCampaign,
                 rows |-> <<Row(SDColumnsNoCampaign,
                                <<Num(1), Num(1), Num(1), Num(1), Num(1)>>)>>]),
          Table([columns |-> SDColumnsNoSpend,
                 rows |-> <<Row(SDColumnsNoSpend,
                                <<S("C1"), S("A1"), Num(1), Num(1), Num(1), Num(1)>>)>>])}

SBFiles ==
    {Missing} \cup {Table(df) : df \in Tables(SBColumns, SBRows, MaxRowsSB)}

\* the dataset_names lists a caller passes
NameLists == {<<>>,
              <<"sponsored_display">>,
              <<"sponsored_brands">>,
              <<"sponsored_display", "sponsored_brands">>,
              <<"unknown", "sponsored_display">>,
              <<"Sponsored Display">>}

\* sort_by: two numeric fields and a field no entity has
SortFields == {"spend", "roas", "not_a_field"}

NoCall == [op |-> "none"]

wfVars == <<state, registry, apiKey, pc, decision, lastAdvice, crashCause,
            insightsOutcome, metricsRuns, insightsRuns, stageInput>>
aggVars == <<files, cache, lastCall, lastResult, diskReads>>

\* a process that has loaded nothing, with the data files on disk
AggInit ==
    /\ files \in [sponsored_display : SDFiles, sponsored_brands : SBFiles]
    /\ cache = EmptyCache
    /\ lastCall = NoCall
    /\ lastResult = None
    /\ diskReads = <<>>
    /\ state = initialize_state("req", None, None)
    /\ registry = {}
    /\ apiKey = FALSE
    /\ pc = "start"
    /\ decision = "none"
    /\ lastAdvice = "none"
    /\ crashCause = "none"
    /\ insightsOutcome = "none"
    /\ metricsRuns = 0
    /\ insightsRuns = 0
    /\ stageInput = None

Called(op, names, sort_by, ascending, limit, r) ==
    /\ lastCall' = [op |-> op, dataset_names |-> names, sort_by |-> sort_by,
                    ascending |-> ascending, limit |-> limit]
    /\ lastResult' = r.result
    /\ cache' = r.cache
    /\ diskReads' = diskReads \o r.reads
    /\ UNCHANGED <<files, wfVars>>

ComputeCampaignMetrics ==
    /\ lastCall = NoCall
    /\ \E names \in NameLists, sort_by \in SortFields, ascending \in BOOLEAN,
          limit \in 0..MaxLimit :
          Called("campaign", names, sort_by, ascending, limit,
                 _compute_campaign_metrics(names, sort_by, ascending, limit, cache, files))

ComputeSearchTermMetrics ==
    /\ lastCall = NoCall
    /\ \E names \in NameLists, sort_by \in SortFields, ascending \in BOOLEAN,
          limit \in 0..MaxLimit :
          Called("search_term", names, sort_by, ascending, limit,
                 _compute_search_term_metrics(names, sort_by, ascending, limit, cache, files))

ComputeProductMetrics ==
    /\ lastCall = NoCall
    /\ \E names \in NameLists, sort_by \in SortFields, ascending \in BOOLEAN,
          limit \in 0..MaxLimit :
          Called("product", names, sort_by, ascending, limit,
                 _compute_product_metrics(names, sort_by, ascending, limit, cache, files))

ComputeAccountSummary ==
    /\ lastCall = NoCall
    /\ \E names \in NameLists :
          LET r == _compute_account_summary(names, cache, files) IN
          /\ lastCall' = [op |-> "account", dataset_names |-> names]
          /\ lastResult' = r.result
          /\ cache' = r.cache
          /\ diskReads' = diskReads \o r.reads
          /\ UNCHANGED <<files, wfVars>>

AggNext ==
    \/ ComputeCampaignMetrics
    \/ ComputeSearchTermMetrics
    \/ ComputeProductMetrics
    \/ ComputeAccountSummary

AggSpec == AggInit /\ [][AggNext]_vars

-----------------------------------------------------------------------------
(* The run: main.py builds the workflow and invokes it on initialize_state *)

Inc(n) == IF n < MaxRuns THEN n + 1 ELSE n

Init ==
    /\ \E r \in UserRequests, sd \in DateInputs, ed \in DateInputs :
          state = initialize_state(r, sd, ed)
    /\ registry = {}
    /\ apiKey \in BOOLEAN
    /\ pc = "start"
    /\ decision = "none"
    /\ lastAdvice = "none"
    /\ crashCause = "none"
    /\ insightsOutcome = "none"
    /\ metricsRuns = 0
    /\ insightsRuns = 0
    /\ stageInput = None
    /\ files = [sponsored_display |-> Missing, sponsored_brands |-> Missing]
    /\ cache = EmptyCache
    /\ lastCall = NoCall
    /\ lastResult = None
    /\ diskReads = <<>>

\* Agent.__init__ -> AgentRegistry.register_agent, at process start-up
RegisterAgent ==
    /\ pc = "start"
    /\ \E name \in AgentNames :
          /\ name \notin registry
          /\ registry' = registry \cup {name}
    /\ UNCHANGED <<state, apiKey, pc, decision, lastAdvice, crashCause,
                   insightsOutcome, metricsRuns, insightsRuns, stageInput>>
    /\ UNCHANGED aggVars

\* app.invoke(initial_state): the entry point is the supervisor
Invoke ==
    /\ pc = "start"
    /\ pc' = "supervisor"
    /\ UNCHANGED <<state, registry, apiKey, decision, lastAdvice, crashCause,
                   insightsOutcome, metricsRuns, insightsRuns, stageInput>>
    /\ UNCHANGED aggVars

SupervisorNode ==
    /\ pc = "supervisor"
    /\ state' = supervisor_node(state)
    /\ pc' = "route"
    /\ UNCHANGED <<registry, apiKey, decision, lastAdvice, crashCause,
                   insightsOutcome, metricsRuns, insightsRuns, stageInput>>
    /\ UNCHANGED aggVars

DecideNextNode ==
    /\ pc = "route"
    /\ \E adv \in Advice :
          LET r == decide_next_node(state, registry, apiKey, adv) IN
          /\ lastAdvice' = AdviceClass(registry, apiKey, adv)
          /\ IF r.kind = "raise"
             THEN /\ pc' = "crashed"
                  /\ crashCause' = "decide_next_node:RuntimeError"
                  /\ UNCHANGED decision
             ELSE /\ pc' = "edge"
                  /\ decision' = r.value
                  /\ UNCHANGED crashCause
    /\ UNCHANGED <<state, registry, apiKey, insightsOutcome, metricsRuns, insightsRuns, stageInput>>
    /\ UNCHANGED aggVars

\* the conditional edge looks the decision up in its mapping
ConditionalEdge ==
    /\ pc = "edge"
    /\ IF decision \in DOMAIN EdgeMap
       THEN pc' = EdgeMap[decision] /\ UNCHANGED crashCause
       ELSE pc' = "crashed" /\ crashCause' = "conditional_edge:KeyError"
    /\ UNCHANGED <<state, registry, apiKey, decision, lastAdvice,
                   insightsOutcome, metricsRuns, insightsRuns, stageInput>>
    /\ UNCHANGED aggVars

MetricsAgent ==
    /\ pc = "metrics_agent"
    /\ metricsRuns' = Inc(metricsRuns)
    /\ stageInput' = metrics_input_after(state)
    /\ \E tools \in ToolResults :
          LET r == run_metrics_agent(state, tools) IN
          IF r.kind = "return"
          THEN /\ state' = r.value
               /\ pc' = "supervisor"
               /\ UNCHANGED crashCause
          ELSE /\ pc' = "crashed"
               /\ crashCause' = "run_metrics_agent:" \o r.exc
               /\ UNCHANGED state
    /\ UNCHANGED <<registry, apiKey, decision, lastAdvice, insightsOutcome, insightsRuns>>
    /\ UNCHANGED aggVars

InsightsAgent ==
    /\ pc = "insights_agent"
    /\ insightsRuns' = Inc(insightsRuns)
    /\ stageInput' = insights_input_after(state)
    /\ \E call \in LLMCallOutcomes :
          LET r == run_insights_agent(state, apiKey, call) IN
          /\ insightsOutcome' =
                IF state.metrics_bundle = None THEN "not_called"
                ELSE IF insights_try(apiKey, call).kind = "return" THEN "ok"
                ELSE insights_try(apiKey, call).exc
          /\ IF r.kind = "return"
             THEN /\ state' = r.value
                  /\ pc' = "supervisor"
                  /\ UNCHANGED crashCause
             ELSE /\ pc' = "crashed"
                  /\ crashCause' = "run_insights_agent:" \o r.exc
                  /\ UNCHANGED state
    /\ UNCHANGED <<registry, apiKey, decision, lastAdvice, metricsRuns>>
    /\ UNCHANGED aggVars

HumanNode ==
    /\ pc = "human"
    /\ state' = _human_node(state)
    /\ pc' = "supervisor"
    /\ UNCHANGED <<registry, apiKey, decision, lastAdvice, crashCause,
                   insightsOutcome, metricsRuns, insightsRuns, stageInput>>
    /\ UNCHANGED aggVars

Next ==
    \/ RegisterAgent
    \/ Invoke
    \/ SupervisorNode
    \/ DecideNextNode
    \/ ConditionalEdge
    \/ MetricsAgent
    \/ InsightsAgent
    \/ HumanNode

Spec == Init /\ [][Next]_vars

-----------------------------------------------------------------------------
(* Properties *)

\* decide_next_node has just been called on the current state: it returned
\* (the conditional edge is about to read the decision) or it raised
JustDecided == pc = "edge" \/ crashCause = "decide_next_node:RuntimeError"

MetricsAbsent == state.metrics_bundle = None
InsightsAbsent == state.insights_report = None
BothPresent == ~MetricsAbsent /\ ~InsightsAbsent

\* C1: whenever decide_next_node is called on a state whose metrics_bundle is
\* absent it returns 'metrics_agent', whatever the LLM router answers and
\* however it fails.
C1_MetricsAbsentSelectsMetrics ==
    (JustDecided /\ MetricsAbsent) => (pc = "edge" /\ decision = "metrics_agent")

\* C2: whenever decide_next_node is called on a state with metrics_bundle
\* present and insights_report absent it returns 'insights_agent', whatever
\* the LLM router answers and however it fails.
C2_InsightsAbsentSelectsInsights ==
    (JustDecided /\ ~MetricsAbsent /\ InsightsAbsent)
        => (pc = "edge" /\ decision = "insights_agent")

\* C3: once metrics_bundle and insights_report are both non-null, every call
\* of decide_next_node returns 'end'; no stage is selected again.
C3_BothPresentSelectsEnd ==
    (JustDecided /\ BothPresent) => (pc = "edge" /\ decision = "end")

\* C4: when the advisory layer is absent (no API key), raises, or names
\* something outside the registered names plus 'end', decide_next_node does
\* not raise and returns the decision of the deterministic fallback rule.
C4_FallbackFiresAndNeverRaises ==
    (JustDecided /\ lastAdvice \in {"absent", "error", "invalid"})
        => (pc = "edge" /\ decision = fallback_decision(state))

\* C5: every value returned by decide_next_node is a key of the conditional
\* edge mapping, for any registry contents and any advisory answer.
C5_DecisionIsKnownStage ==
    pc = "edge" => decision \in DOMAIN EdgeMap

\* C6: the graph reaches END only in a state where metrics_bundle and
\* insights_report are both present.
C6_EndOnlyWhenBothPresent ==
    pc = "END" => BothPresent

\* C7: no error other than an assembly validation failure stops a run
\* before END.
C7_OnlyValidationFailureAborts ==
    pc = "crashed" => crashCause = "run_metrics_agent:ValidationError"

\* C8: two calls of decide_next_node on the same Workflow State, with no
\* stage executed in between, return the same decision: at every call site
\* the result does not depend on what the LLM router does in that call.
C8_IdempotentRouting ==
    pc = "route" =>
        \A a1, a2 \in Advice :
            decide_next_node(state, registry, apiKey, a1)
                = decide_next_node(state, registry, apiKey, a2)

\* C9: the supervisor never mutates the Workflow State: neither the step of
\* supervisor_node nor the step of decide_next_node changes any of
\* user_request, start_date, end_date, metrics_bundle, insights_report.
C9_SupervisorLeavesStateUnchanged ==
    [][(pc \in {"supervisor", "route"}) => (state' = state)]_vars

\* C9 witness: the supervisor node and decide_next_node have both run on a
\* state that carries a computed metrics bundle.
C9_Witness ==
    pc = "edge" /\ ~MetricsAbsent /\ metricsRuns > 0

\* C10: when the LLM call inside run_insights_agent fails in any way, the
\* stage does not raise and insights_report holds a non-null report whose
\* summary text marks it as the mock/fallback report.
C10_AnyFailureYieldsFallbackReport ==
    insightsOutcome \in {"RuntimeError", "TimeoutError", "ValueError"}
        => /\ crashCause \notin {"run_insights_agent:" \o e : e \in {"TimeoutError", "ValueError"}}
           /\ state.insights_report # None
           /\ state.insights_report.natural_language_summary = MockSummary

\* C11: in a run each stage is invoked at most once: run_metrics_agent is
\* entered at most once and run_insights_agent is entered at most once.
C11_EachStageAtMostOnce ==
    metricsRuns <= 1 /\ insightsRuns <= 1

\* C12: run_insights_agent is entered only in a state where metrics_bundle
\* is present.
C12_InsightsOnlyAfterMetrics ==
    pc = "insights_agent" => ~MetricsAbsent

C14_HumanDetourReturnsToSupervisor ==
    [][(pc = "human") => (pc' = "supervisor" /\ state' = state)]_vars

\* C14 witness: the human node has run and handed control back to the
\* supervisor.
C14_Witness ==
    pc = "supervisor" /\ decision = "human" /\ state.user_request # ""

-----------------------------------------------------------------------------
(* Claims about the aggregation functions, checked under AggSpec *)

GroupedOps == {"campaign", "search_term", "product"}

\* the last call was a grouped aggregation that returned a list
GroupedReturned ==
    /\ lastCall # NoCall
    /\ lastCall.op \in GroupedOps
    /\ lastResult.kind = "return"

\* every aggregate the last call returned: the entities of a list, or the
\* account summary
LastAggregates ==
    IF lastCall = NoCall \/ lastResult.kind = "raise" THEN {}
    ELSE IF lastCall.op = "account" THEN {lastResult.value}
    ELSE SeqToSet(lastResult.value)

\* C15: zero-safety. In every aggregate a zero denominator gives the ratio
\* 0.0: impressions = 0 gives ctr = 0, clicks = 0 gives cvr = 0 and cpc = 0,
\* sales = 0 gives acos = 0, spend = 0 gives roas = 0; no ratio is the
\* outcome of a division by zero (an exception, infinity or NaN).
C15_ZeroSafety ==
    \A m \in LastAggregates :
        /\ (m.impressions = 0) => (m.ctr = Zero)
        /\ (m.clicks = 0) => (m.cvr = Zero /\ m.cpc = Zero)
        /\ (m.sales = 0) => (m.acos = Zero)
        /\ (m.spend = 0) => (m.roas = Zero)
        /\ \A f \in RatioFields : m[f].d # 0

\* C15 witness: a grouped call returned one entity with no impressions, no
\* clicks and no sales but some spend, and another entity with no spend.
C15_Witness ==
    /\ GroupedReturned
    /\ \E m1, m2 \in LastAggregates :
          /\ m1.impressions = 0 /\ m1.clicks = 0 /\ m1.sales = 0 /\ m1.spend > 0
          /\ m2.spend = 0 /\ m2.sales > 0

\* the frames the last call aggregated, and their concatenation
LastFrames ==
    LoadFrames(lastCall.dataset_names, EmptyCache, files, lastCall.op = "campaign",
               NoLoads).frames
LastTable == concat(LastFrames)

\* the entities of the last grouped call before sorting and truncation
LastEntities ==
    CASE lastCall.op = "campaign" -> CampaignEntities(LastFrames)
      [] lastCall.op = "search_term" -> SearchTermEntities(LastFrames)
      [] lastCall.op = "product" -> ProductEntities(LastFrames)

\* the dimension fields of each grouping with the header names they go by
Dimensions ==
    [campaign |->
        <<[field |-> "campaign_id", names |-> <<"Campaign ID", "campaign_id">>],
          [field |-> "campaign_name",
           names |-> <<"Campaign Name", "campaign_name", "Campaign">>],
          [field |-> "campaign_type", names |-> <<"__campaign_type">>]>>,
     search_term |->
        <<[field |-> "search_term",
           names |-> <<"Search Term", "search_term", "Customer Search Term">>],
          [field |-> "campaign_id", names |-> <<"Campaign ID", "campaign_id">>],
          [field |-> "campaign_name",
           names |-> <<"Campaign Name", "campaign_name", "Campaign">>],
          [field |-> "ad_group_name", names |-> <<"Ad Group Name", "ad_group_name">>],
          [field |-> "match_type", names |-> <<"Match Type", "match_type">>]>>,
     product |->
        <<[field |-> "asin", names |-> <<"ASIN", "asin">>],
          [field |-> "sku", names |-> <<"SKU", "sku">>],
          [field |-> "product_name",
           names |-> <<"Advertised ASIN", "Product Name", "product_name">>],
          [field |-> "campaign_id", names |-> <<"Campaign ID", "campaign_id">>],
          [field |-> "campaign_name",
           names |-> <<"Campaign Name", "campaign_name", "Campaign">>]>>]

\* the dimension fields of a grouping that resolve in a header, each with its
\* column
ResolvedDimensions(op, columns) ==
    LET all == [i \in 1..Len(Dimensions[op]) |->
                   [field |-> Dimensions[op][i].field,
                    col |-> _first_existing_column(columns, Dimensions[op][i].names)]]
    IN  SelectSeq(all, LAMBDA d : d.col # None)

\* the key of a row: its values in the resolved dimension columns
DimensionKey(row, dims) == [i \in 1..Len(dims) |-> row[dims[i].col.val]]

\* the amounts of a column over the rows whose key is k, added up in row
\* order, a missing amount counting as zero; float columns round each step
GroupSum(rows, dims, k, col, isFloat) ==
    LET sum[n \in 0..Len(rows)] ==
            IF n = 0 THEN 0
            ELSE IF DimensionKey(rows[n], dims) # k THEN sum[n - 1]
            ELSE LET v == IF rows[n][col] = NaN THEN 0 ELSE rows[n][col].num IN
                 IF isFloat THEN FRound(sum[n - 1] + v) ELSE sum[n - 1] + v
    IN  sum[Len(rows)]

\* the last call grouped a table whose group keys and numeric columns
\* resolved, and every entity it built was valid
GroupedScope ==
    /\ lastCall # NoCall
    /\ lastCall.op \in GroupedOps
    /\ LastFrames # <<>>
    /\ LastEntities # None
    /\ LastEntities.kind = "return"
    /\ _extract_numeric_columns(LastTable.columns).kind = "return"

\* C16: a grouped aggregation yields, before sorting and truncation, exactly
\* one entity per distinct combination of key values among the rows, a
\* missing key value being a value of its own (shown as "nan"); the entity's
\* spend, sales, orders, impressions and clicks are the sums of the group's
\* rows (spend and sales as floats in row order), missing amounts as zero.
C16_OneEntityPerKeyWithSums ==
    GroupedScope =>
        LET ents == LastEntities.value
            rows == LastTable.rows
            dims == ResolvedDimensions(lastCall.op, LastTable.columns)
            num == _extract_numeric_columns(LastTable.columns).value
            keys == {DimensionKey(rows[r], dims) : r \in 1..Len(rows)}
            Shown(v) == IF v = NaN THEN Str("nan") ELSE Str(v.str)
            IsFor(e, k) == \A i \in 1..Len(dims) : e[dims[i].field] = Shown(k[i])
        IN  /\ Len(ents) = Cardinality(keys)
            /\ \A k \in keys :
                  /\ Cardinality({i \in 1..Len(ents) : IsFor(ents[i], k)}) = 1
                  /\ \A i \in 1..Len(ents) :
                        IsFor(ents[i], k) =>
                            /\ ents[i].spend = GroupSum(rows, dims, k, num.spend, TRUE)
                            /\ ents[i].sales = GroupSum(rows, dims, k, num.sales, TRUE)
                            /\ ents[i].orders = GroupSum(rows, dims, k, num.orders, FALSE)
                            /\ ents[i].impressions =
                                   GroupSum(rows, dims, k, num.impressions, FALSE)
                            /\ ents[i].clicks = GroupSum(rows, dims, k, num.clicks, FALSE)

\* C16 witness: a campaign grouping of a table with more rows than groups, a
\* row whose campaign is missing and a row whose spend is missing.
C16_Witness ==
    /\ GroupedScope
    /\ lastCall.op = "campaign"
    /\ Len(LastEntities.value) >= 2
    /\ Len(LastTable.rows) > Len(LastEntities.value)
    /\ \E i \in 1..Len(LastEntities.value) :
          LastEntities.value[i].campaign_name = Str("nan")
    /\ \E r \in 1..Len(LastTable.rows) : LastTable.rows[r]["Spend"] = NaN

\* the data files with the rows of the sponsored_display table rearranged by p
PermutedFiles(p) ==
    [files EXCEPT !.sponsored_display.df.rows =
        [i \in 1..Len(files.sponsored_display.df.rows) |->
            files.sponsored_display.df.rows[p[i]]]]

\* the rearrangements of the rows of the sponsored_display table
RowPermutations ==
    IF files.sponsored_display.kind = "table"
    THEN Permutations(1..Len(files.sponsored_display.df.rows))
    ELSE {}

\* the last grouped call made again in a fresh process on other data files
GroupedCallOn(disk) ==
    CASE lastCall.op = "campaign" ->
            _compute_campaign_metrics(lastCall.dataset_names, lastCall.sort_by,
                lastCall.ascending, lastCall.limit, EmptyCache, disk).result
      [] lastCall.op = "search_term" ->
            _compute_search_term_metrics(lastCall.dataset_names, lastCall.sort_by,
                lastCall.ascending, lastCall.limit, EmptyCache, disk).result
      [] lastCall.op = "product" ->
            _compute_product_metrics(lastCall.dataset_names, lastCall.sort_by,
                lastCall.ascending, lastCall.limit, EmptyCache, disk).result

\* what a column of the aggregated table adds up to without any rounding
ExactTotal(col) ==
    LET rows == LastTable.rows
        sum[n \in 0..Len(rows)] ==
            IF n = 0 THEN 0
            ELSE sum[n - 1] + (IF rows[n][col] = NaN THEN 0 ELSE rows[n][col].num)
    IN  sum[Len(rows)]

\* no addition of spend or sales over the aggregated table rounds: every
\* partial sum is an integer the float format holds exactly
ExactSums ==
    \/ LastFrames = <<>>
    \/ _extract_numeric_columns(LastTable.columns).kind = "raise"
    \/ LET num == _extract_numeric_columns(LastTable.columns).value IN
       /\ ExactTotal(num.spend) <= Pow2(MantissaBits)
       /\ ExactTotal(num.sales) <= Pow2(MantissaBits)

\* C17 as stated: for every rearrangement of the rows of a table, each grouped
\* aggregation returns the same collection of entities, as a set.
C17_Original_OrderIndependence ==
    GroupedReturned =>
        \A p \in RowPermutations :
            /\ GroupedCallOn(PermutedFiles(p)).kind = "return"
            /\ SeqToSet(GroupedCallOn(PermutedFiles(p)).value) = SeqToSet(lastResult.value)

\* C17 amended: when no addition of spend or sales rounds, each grouped
\* aggregation returns the same collection of entities, as a set, for every
\* rearrangement of the rows of a table.
C17_OrderIndependenceExactSums ==
    (GroupedReturned /\ ExactSums) =>
        \A p \in RowPermutations :
            /\ GroupedCallOn(PermutedFiles(p)).kind = "return"
            /\ SeqToSet(GroupedCallOn(PermutedFiles(p)).value) = SeqToSet(lastResult.value)

\* C17 witness: a grouped call returned two or more entities from a table
\* whose sums do not round, one group has several rows, and some
\* rearrangement changes the table.
C17_Witness ==
    /\ GroupedReturned
    /\ ExactSums
    /\ Len(lastResult.value) >= 2
    /\ Len(LastTable.rows) > Len(LastEntities.value)
    /\ \E p \in RowPermutations : PermutedFiles(p) # files

\* sum(e.spend for e in entities): float additions in list order
RECURSIVE SpendSum(_, _)
SpendSum(entities, acc) ==
    IF entities = <<>> THEN acc
    ELSE SpendSum(Tail(entities), FAdd(acc, Head(entities).spend))

\* the account summary of a fresh process for the datasets of the last call
AccountOfLastCall ==
    _compute_account_summary(lastCall.dataset_names, EmptyCache, files).result.value

\* the last call was a campaign aggregation that grouped every row of its
\* table by a campaign column and returned
CampaignGrouped ==
    /\ lastCall # NoCall
    /\ lastCall.op = "campaign"
    /\ lastResult.kind = "return"
    /\ LastFrames # <<>>
    /\ LastEntities # None

\* C18 as stated: when campaign grouping succeeds on all rows, the spend of
\* the account summary equals the sum of spend over the campaign entities
\* _compute_campaign_metrics returns for the same datasets.
C18_Original_SumConsistency ==
    CampaignGrouped => AccountOfLastCall.spend = SpendSum(lastResult.value, 0)

\* C18 amended: when campaign grouping succeeds on all rows, the limit leaves
\* out no campaign and no addition of spend rounds, the spend of the account
\* summary equals the sum of spend over the returned campaign entities.
C18_SumConsistencyUntruncatedExact ==
    (/\ CampaignGrouped
     /\ Len(LastEntities.value) <= lastCall.limit
     /\ ExactSums)
        => AccountOfLastCall.spend = SpendSum(lastResult.value, 0)

\* C18 witness: two campaigns, one of several rows, all returned, with a
\* positive account spend that is the exact sum.
C18_Witness ==
    /\ CampaignGrouped
    /\ ExactSums
    /\ Len(lastResult.value) = 2
    /\ Len(LastEntities.value) = 2
    /\ Len(LastTable.rows) > 2
    /\ \A i \in 1..2 : lastResult.value[i].spend > 0
    /\ AccountOfLastCall.spend = lastResult.value[1].spend + lastResult.value[2].spend

\* the value of a numeric field of an entity as a fraction
FieldValue(e, field) ==
    IF field \in RatioFields THEN e[field] ELSE [n |-> e[field], d |-> 1]

\* a is strictly ahead of b in the requested direction
Ahead(a, b, ascending) ==
    IF ascending THEN a.n * b.d < b.n * a.d ELSE b.n * a.d < a.n * b.d

\* the place of the i-th emitted entity in the requested ordering: behind
\* every entity strictly ahead of it and every equal one emitted earlier
Place(full, i, field, ascending) ==
    1 + Cardinality({j \in 1..Len(full) :
            \/ Ahead(FieldValue(full[j], field), FieldValue(full[i], field), ascending)
            \/ /\ FieldValue(full[j], field) = FieldValue(full[i], field)
               /\ j < i})

\* the last call was a grouped computation that returned its entities sorted
\* by a numeric field
SortedByNumericField ==
    /\ GroupedReturned
    /\ lastCall.sort_by \in AmountFields \cup RatioFields
    /\ LastEntities # None

\* C19: the list a grouped computation returns is its entities ordered by the
\* requested numeric field, descending unless ascending is requested, equal
\* values in group emission order, cut to the first `limit` entities; its
\* length is never above the cap.
C19_SortedStableAndCapped ==
    SortedByNumericField =>
        LET full == LastEntities.value
            out == lastResult.value
        IN  /\ Len(out) <= lastCall.limit
            /\ Len(out) = IF Len(full) < lastCall.limit THEN Len(full) ELSE lastCall.limit
            /\ \A i \in 1..Len(full) :
                  Place(full, i, lastCall.sort_by, lastCall.ascending) <= Len(out)
                      => out[Place(full, i, lastCall.sort_by, lastCall.ascending)] = full[i]
            /\ \A k \in 1..(Len(out) - 1) :
                  ~Ahead(FieldValue(out[k + 1], lastCall.sort_by),
                         FieldValue(out[k], lastCall.sort_by), lastCall.ascending)

\* C19 witness: three campaigns sorted by spend ascending and cut to two; the
\* two returned have equal spend and stand in emission order, and the sort
\* moved an entity from where it was emitted.
C19_Witness ==
    /\ SortedByNumericField
    /\ lastCall.sort_by = "spend"
    /\ lastCall.ascending
    /\ lastCall.limit = 2
    /\ Len(LastEntities.value) = 3
    /\ Len(lastResult.value) = 2
    /\ lastResult.value[1].spend = lastResult.value[2].spend
    /\ lastResult.value # SubSeq(LastEntities.value, 1, 2)

\* the dataset names of a list that load: a known dataset whose file is there
\* and readable
Loadable(name) ==
    /\ DatasetKeyTable[name] # None
    /\ files[DatasetKeyTable[name].val].kind = "table"

\* the last call made again in a fresh process with another list of names
CallWithNames(names) ==
    CASE lastCall.op = "campaign" ->
            _compute_campaign_metrics(names, lastCall.sort_by, lastCall.ascending,
                lastCall.limit, EmptyCache, files).result
      [] lastCall.op = "search_term" ->
            _compute_search_term_metrics(names, lastCall.sort_by, lastCall.ascending,
                lastCall.limit, EmptyCache, files).result
      [] lastCall.op = "product" ->
            _compute_product_metrics(names, lastCall.sort_by, lastCall.ascending,
                lastCall.limit, EmptyCache, files).result
      [] lastCall.op = "account" ->
            _compute_account_summary(names, EmptyCache, files).result

\* C20: a dataset that cannot be loaded (unknown name, missing or unreadable
\* file) is skipped: the result of an aggregation is the result over the
\* names that load, an exception leaves an aggregation only when some dataset
\* loaded, and when no dataset loads or the loaded table has no rows a
\* grouped aggregation returns the empty list (the account summary, with no
\* dataset loaded, its default).
C20_LoadErrorsContained ==
    lastCall # NoCall =>
        /\ lastResult = CallWithNames(SelectSeq(lastCall.dataset_names, Loadable))
        /\ lastResult.kind = "raise" =>
              \E i \in 1..Len(lastCall.dataset_names) : Loadable(lastCall.dataset_names[i])
        /\ (\A i \in 1..Len(lastCall.dataset_names) : ~Loadable(lastCall.dataset_names[i]))
              => lastResult = IF lastCall.op = "account"
                              THEN Return(DefaultAccountSummary) ELSE Return(<<>>)
        /\ (lastCall.op \in GroupedOps /\ LastTable.rows = <<>>)
              => lastResult = Return(<<>>)

\* C20 witness: a grouped call over sponsored_display and sponsored_brands
\* with the sponsored_display file unreadable returned entities computed
\* from sponsored_brands alone.
C20_Witness ==
    /\ lastCall # NoCall
    /\ lastCall.op \in GroupedOps
    /\ lastCall.dataset_names = <<"sponsored_display", "sponsored_brands">>
    /\ files.sponsored_display = Corrupt
    /\ lastResult.kind = "return"
    /\ lastResult.value # <<>>
    /\ diskReads = <<"sponsored_display", "sponsored_brands">>

\* a dataset that loads but whose header lacks one of the five numeric columns
NumericUnresolved(name) ==
    /\ Loadable(name)
    /\ _extract_numeric_columns(
           _normalize_columns(files[DatasetKeyTable[name].val].df).columns).kind = "raise"

\* C21 as stated: a dataset whose numeric columns do not resolve is skipped
\* for that dataset only: every aggregation returns what it returns for the
\* other datasets of the request, and returns rather than raises on account
\* of it.
C21_ResolutionErrorSkipsDataset ==
    lastCall # NoCall =>
        lastResult = CallWithNames(SelectSeq(lastCall.dataset_names,
                                             LAMBDA n : ~NumericUnresolved(n)))

-----------------------------------------------------------------------------
(* The column resolver called on its own *)

\* column names a header is made of: several spellings of the same fields
ResolverNames == {"Spend", "spend", "SPEND", "Clicks ", "Campaign Name",
                  "campaign_name", "Campaign ID", "campaign id"}

\* the headers of at most MaxColumns distinct columns
Headers ==
    {h \in UNION {[1..k -> ResolverNames] : k \in 0..MaxColumns} :
        \A i, j \in 1..Len(h) : h[i] = h[j] => i = j}

\* the lists of name variants tried
CandidateLists == {<<>>,
                   <<"Spend", "spend">>,
                   <<"Clicks", "clicks">>,
                   <<"Campaign Name", "campaign_name", "Campaign">>,
                   <<"Campaign ID", "campaign_id">>,
                   <<"Campaign ID", "Spend">>,
                   <<"Spend", "Campaign ID">>}

\* the spellings a report may use for each numeric field, None for a report
\* without the field
NumericSpellings ==
    [spend |-> {None, Str("Spend"), Str("SPEND")},
     sales |-> {None, Str("Revenue"), Str("14 Day Total Sales (Rs)")},
     orders |-> {None, Str("orders"), Str("14 Day Total Orders (#) - (Click)")},
     impressions |-> {None, Str("Impressions"), Str("impressions")},
     clicks |-> {None, Str("Clicks "), Str("clicks")}]

\* the header of a report with the chosen spellings, after a campaign column
NumericHeader(pick) ==
    <<"Campaign Name">> \o
    ResolvedKeys(<<pick.spend, pick.sales, pick.orders, pick.impressions, pick.clicks>>)

ResolveInit ==
    /\ files = [sponsored_display |-> Missing, sponsored_brands |-> Missing]
    /\ cache = EmptyCache
    /\ lastCall = NoCall
    /\ lastResult = None
    /\ diskReads = <<>>
    /\ state = initialize_state("req", None, None)
    /\ registry = {}
    /\ apiKey = FALSE
    /\ pc = "start"
    /\ decision = "none"
    /\ lastAdvice = "none"
    /\ crashCause = "none"
    /\ insightsOutcome = "none"
    /\ metricsRuns = 0
    /\ insightsRuns = 0
    /\ stageInput = None

FirstExistingColumn ==
    /\ lastCall = NoCall
    /\ \E columns \in Headers, candidates \in CandidateLists :
          /\ lastCall' = [op |-> "_first_existing_column", columns |-> columns,
                          candidates |-> candidates]
          /\ lastResult' = _first_existing_column(columns, candidates)
    /\ UNCHANGED <<files, cache, diskReads, wfVars>>

ExtractNumericColumns ==
    /\ lastCall = NoCall
    /\ \E pick \in [spend : NumericSpellings.spend, sales : NumericSpellings.sales,
                    orders : NumericSpellings.orders,
                    impressions : NumericSpellings.impressions,
                    clicks : NumericSpellings.clicks] :
          /\ lastCall' = [op |-> "_extract_numeric_columns",
                          columns |-> NumericHeader(pick)]
          /\ lastResult' = _extract_numeric_columns(NumericHeader(pick))
    /\ UNCHANGED <<files, cache, diskReads, wfVars>>

ResolveNext ==
    \/ FirstExistingColumn
    \/ ExtractNumericColumns

ResolveSpec == ResolveInit /\ [][ResolveNext]_vars

\* a name with blanks and underscores taken out and letters in lower case
Folded(name) ==
    LET kept == SelectSeq(Chars[name], LAMBDA c : c \notin {" ", "_"}) IN
    [i \in 1..Len(kept) |-> Lower(kept[i])]

\* the columns of a header that go by a name variant
ColumnsNamed(columns, variant) ==
    {k \in 1..Len(columns) : Folded(columns[k]) = Folded(variant)}

UnresolvedFields(columns) ==
    {field \in DOMAIN NumericCandidates :
        \A j \in 1..Len(NumericCandidates[field]) :
            ColumnsNamed(columns, NumericCandidates[field][j]) = {}}

\* C23: _extract_numeric_columns raises ValueError exactly when one of spend,
\* sales, orders, impressions, clicks does not resolve, the error names the
\* unresolved fields and no others, each once, and otherwise it returns for
\* each of the five fields a column of the header that goes by one of the
\* field's variants.
C23_NumericResolutionMandatory ==
    (lastCall # NoCall /\ lastCall.op = "_extract_numeric_columns") =>
        LET unresolved == UnresolvedFields(lastCall.columns) IN
        /\ (lastResult.kind = "raise") <=> (unresolved # {})
        /\ lastResult.kind = "raise" =>
              /\ lastResult.exc = "ValueError"
              /\ SeqToSet(lastResult.missing) = unresolved
              /\ Len(lastResult.missing) = Cardinality(unresolved)
        /\ lastResult.kind = "return" =>
              /\ DOMAIN lastResult.value = DOMAIN NumericCandidates
              /\ \A field \in DOMAIN NumericCandidates :
                    \E j \in 1..Len(NumericCandidates[field]) :
                        \E k \in ColumnsNamed(lastCall.columns, NumericCandidates[field][j]) :
                            lastResult.value[field] = lastCall.columns[k]

\* C23 witness: a header in which spend, impressions and clicks resolve and
\* sales and orders do not; the error names sales and orders.
C23_Witness ==
    /\ lastCall # NoCall
    /\ lastCall.op = "_extract_numeric_columns"
    /\ Len(lastCall.columns) = 4
    /\ lastResult.kind = "raise"
    /\ lastResult.missing = <<"sales", "orders">>

\* the number of groups the rows fall into under the dimension keys that
\* resolved, one catch-all group when none did
ExpectedGroups(op, table) ==
    IF table.rows = <<>> THEN 0
    ELSE IF ResolvedDimensions(op, table.columns) = <<>> THEN 1
    ELSE Cardinality({DimensionKey(table.rows[r], ResolvedDimensions(op, table.columns)) :
                         r \in 1..Len(table.rows)})

\* C24 as stated: in every grouping an unresolved dimension field is null on
\* the entities, the rows are grouped by the dimension keys that did resolve,
\* and when none resolves a single catch-all entity covers all rows; so the
\* number of entities returned is the number of groups, up to the limit.
C24_DimensionsOptional ==
    (/\ GroupedReturned
     /\ LastFrames # <<>>
     /\ _extract_numeric_columns(LastTable.columns).kind = "return")
        => /\ \A i \in 1..Len(lastResult.value) :
                 \A d \in 1..Len(Dimensions[lastCall.op]) :
                     _first_existing_column(LastTable.columns,
                                            Dimensions[lastCall.op][d].names) = None
                         => lastResult.value[i][Dimensions[lastCall.op][d].field] = None
           /\ Len(lastResult.value) =
                 IF ExpectedGroups(lastCall.op, LastTable) < lastCall.limit
                 THEN ExpectedGroups(lastCall.op, LastTable) ELSE lastCall.limit

-----------------------------------------------------------------------------
(* src/tools/metrics_tools.py: get_holistic_performance_report_data *)

\* the eight computations of the report in the order they are made, each
\* with the bundle field it fills
ReportSteps ==
    <<[field |-> "account_summary", op |-> "account"],
      [field |-> "top_campaigns_by_spend", op |-> "campaign",
       sort_by |-> "spend", ascending |-> FALSE, limit |-> 5],
      [field |-> "top_campaigns_by_roas", op |-> "campaign",
       sort_by |-> "roas", ascending |-> FALSE, limit |-> 5],
      [field |-> "bottom_campaigns_by_roas", op |-> "campaign",
       sort_by |-> "roas", ascending |-> TRUE, limit |-> 5],
      [field |-> "top_search_terms_by_spend", op |-> "search_term",
       sort_by |-> "spend", ascending |-> FALSE, limit |-> 5],
      [field |-> "top_search_terms_by_roas", op |-> "search_term",
       sort_by |-> "roas", ascending |-> FALSE, limit |-> 5],
      [field |-> "top_products_by_spend", op |-> "product",
       sort_by |-> "spend", ascending |-> FALSE, limit |-> 5],
      [field |-> "bottom_products_by_roas", op |-> "product",
       sort_by |-> "roas", ascending |-> TRUE, limit |-> 5]>>

\* one computation of the report
ReportCall(step, dataset_names, dataCache, disk) ==
    CASE step.op = "account" -> _compute_account_summary(dataset_names, dataCache, disk)
      [] step.op = "campaign" ->
            _compute_campaign_metrics(dataset_names, step.sort_by, step.ascending,
                                      step.limit, dataCache, disk)
      [] step.op = "search_term" ->
            _compute_search_term_metrics(dataset_names, step.sort_by, step.ascending,
                                         step.limit, dataCache, disk)
      [] step.op = "product" ->
            _compute_product_metrics(dataset_names, step.sort_by, step.ascending,
                                     step.limit, dataCache, disk)

\* the computations run one after the other on the same _DATA_CACHE; an
\* exception of one of them ends the function; o is what the first did
RECURSIVE ReportRun(_, _, _, _, _)
ReportStep(steps, dataset_names, disk, acc, o) ==
    IF o.result.kind = "raise"
    THEN [values |-> acc.values, raised |-> o.result, cache |-> o.cache,
          reads |-> acc.reads \o o.reads]
    ELSE ReportRun(Tail(steps), dataset_names, o.cache, disk,
                   [values |-> Append(acc.values, o.result.value),
                    reads |-> acc.reads \o o.reads])

ReportRun(steps, dataset_names, dataCache, disk, acc) ==
    IF steps = <<>>
    THEN [values |-> acc.values, raised |-> None, cache |-> dataCache, reads |-> acc.reads]
    ELSE ReportStep(steps, dataset_names, disk, acc,
                    ReportCall(Head(steps), dataset_names, dataCache, disk))

\* the dict the function returns: _serialize leaves the entities as they are
\* and turns generated_at into its ISO text
ReportBundle(values) ==
    [report_metadata |-> [generated_at |-> Str("utcnow"),
                          start_date |-> values[1].start_date,
                          end_date |-> values[1].end_date]]
    @@ [f \in {ReportSteps[i].field : i \in 1..Len(ReportSteps)} |->
           values[CHOOSE i \in 1..Len(ReportSteps) : ReportSteps[i].field = f]]

ReportOutcome(run) ==
    [result |-> IF run.raised # None THEN run.raised ELSE Return(ReportBundle(run.values)),
     cache |-> run.cache,
     reads |-> run.reads]

get_holistic_performance_report_data(dataset_names, dataCache, disk) ==
    ReportOutcome(ReportRun(ReportSteps, dataset_names, dataCache, disk,
                            [values |-> <<>>, reads |-> <<>>]))

GetHolisticReport ==
    /\ lastCall = NoCall
    /\ \E names \in NameLists :
          /\ lastCall' = [op |-> "holistic", dataset_names |-> names]
          /\ lastResult' = get_holistic_performance_report_data(names, cache, files).result
          /\ cache' = get_holistic_performance_report_data(names, cache, files).cache
          /\ diskReads' =
                diskReads \o get_holistic_performance_report_data(names, cache, files).reads
          /\ UNCHANGED <<files, wfVars>>

BundleSpec == AggInit /\ [][GetHolisticReport]_vars

SliceFields ==
    {"top_campaigns_by_spend", "top_campaigns_by_roas", "bottom_campaigns_by_roas",
     "top_search_terms_by_spend", "top_search_terms_by_roas",
     "top_products_by_spend", "bottom_products_by_roas"}

\* C25 as stated: for any list of dataset names the report function returns
\* a bundle with the report metadata, the account summary and the seven
\* slices, each slice a sequence of at most 5 entities, the empty sequence
\* when its aggregation yields nothing.
C25_BundleComplete ==
    lastCall # NoCall =>
        /\ lastResult.kind = "return"
        /\ DOMAIN lastResult.value =
              {"report_metadata", "account_summary"} \cup SliceFields
        /\ \A f \in SliceFields :
              /\ lastResult.value[f] \in Seq(SeqToSet(lastResult.value[f]))
              /\ Len(lastResult.value[f]) <= 5

\* C26 as stated: a bundle is written to metrics_bundle only when it passed
\* validation, and a bundle that fails validation goes through one repair
\* pass and is validated again before the run aborts on a validation error:
\* the step that aborts the run on a validation error is taken from the
\* repair pass, never straight from the first validation.
C26_ValidationRepairedOnceBeforeAbort ==
    [][/\ (state'.metrics_bundle # state.metrics_bundle)
            => (state'.metrics_bundle.tag = "MetricsBundle")
       /\ (crashCause = "none" /\ crashCause' = "run_metrics_agent:ValidationError")
            => (pc = "repair_pass" /\ state'.metrics_bundle = state.metrics_bundle)]_vars

-----------------------------------------------------------------------------
(* One process making several loads and aggregations while the files change *)

\* two different sponsored_display reports, one sponsored_brands report
CacheTables ==
    [sponsored_display |->
        {Table([columns |-> SDColumns, rows |-> <<r>>]) : r \in
            {Row(SDColumns, <<S("C1"), S("A1"), Num(1), Num(0), Num(0), Num(0), Num(0)>>),
             Row(SDColumns, <<S("C2"), S("A1"), Num(1), Num(1), NaN, Num(1), Num(1)>>)}},
     sponsored_brands |->
        {Table([columns |-> SBColumns, rows |-> <<r>>]) : r \in SBRows}]

CacheFiles ==
    [sponsored_display |-> {Missing, Corrupt} \cup CacheTables.sponsored_display,
     sponsored_brands |-> {Missing} \cup CacheTables.sponsored_brands]

CacheInit ==
    /\ files \in [sponsored_display : CacheFiles.sponsored_display,
                  sponsored_brands : CacheFiles.sponsored_brands]
    /\ cache = EmptyCache
    /\ lastCall = NoCall
    /\ lastResult = None
    /\ diskReads = <<>>
    /\ state = initialize_state("req", None, None)
    /\ registry = {}
    /\ apiKey = FALSE
    /\ pc = "start"
    /\ decision = "none"
    /\ lastAdvice = "none"
    /\ crashCause = "none"
    /\ insightsOutcome = "none"
    /\ metricsRuns = 0
    /\ insightsRuns = 0
    /\ stageInput = None

\* a call of _load_dataframe; l is what it did
Loaded(dataset_name, l) ==
    /\ Len(diskReads) + (IF l.read THEN 1 ELSE 0) <= MaxReads
    /\ lastCall' = [op |-> "_load_dataframe", dataset_name |-> dataset_name]
    /\ lastResult' = l.result
    /\ cache' = l.cache
    /\ diskReads' = IF l.read THEN Append(diskReads, DatasetKeyTable[dataset_name].val)
                    ELSE diskReads
    /\ UNCHANGED <<files, wfVars>>

LoadDataframe ==
    \E dataset_name \in DatasetNames :
        Loaded(dataset_name, _load_dataframe(dataset_name, cache, files))

\* a call of one of the four aggregations; r is what it did
Aggregated(op, names, r) ==
    /\ Len(diskReads) + Len(r.reads) <= MaxReads
    /\ Called(op, names, "spend", FALSE, MaxLimit, r)

Aggregate ==
    \E op \in {"campaign", "search_term", "product", "account"}, names \in NameLists :
        Aggregated(op, names,
                   ReportCall([op |-> op, sort_by |-> "spend", ascending |-> FALSE,
                               limit |-> MaxLimit], names, cache, files))

\* a data file is put, replaced or removed on disk
ReplaceFile ==
    /\ \E k \in DOMAIN files :
          \E f \in CacheFiles[k] \ {files[k]} : files' = [files EXCEPT ![k] = f]
    /\ UNCHANGED <<cache, lastCall, lastResult, diskReads, wfVars>>

CacheNext ==
    \/ LoadDataframe
    \/ Aggregate
    \/ ReplaceFile

CacheSpec == CacheInit /\ [][CacheNext]_vars

\* the keys read from disk in the step
NewReads == SubSeq(diskReads', Len(diskReads) + 1, Len(diskReads'))

\* C27: the data cache is filled lazily and read-only afterwards: a step
\* that reads a readable file leaves its table cached and reads it once; a
\* cached key is never read again, its table is never changed by a load or
\* an aggregation, and a load of it returns the cached table, whatever is on
\* disk by then.
C27_CacheLazyThenReadOnly ==
    [][/\ \A k \in DOMAIN files :
             (k \in SeqToSet(NewReads) /\ files[k].kind = "table")
                 => /\ k \in DOMAIN cache'
                    /\ cache'[k] = _normalize_columns(files[k].df)
                    /\ Cardinality({i \in 1..Len(NewReads) : NewReads[i] = k}) = 1
       /\ \A k \in DOMAIN cache :
             /\ k \notin SeqToSet(NewReads)
             /\ k \in DOMAIN cache'
             /\ cache'[k] = cache[k]
             /\ (/\ lastCall' # lastCall
                 /\ lastCall'.op = "_load_dataframe"
                 /\ DatasetKeyTable[lastCall'.dataset_name] = Str(k))
                    => (lastResult' = Return(cache[k]))]_vars

\* C27 witness: sponsored_display was read once and cached, its file has
\* since been replaced by another report, and a campaign aggregation made
\* after that returned the entities of the cached table.
C27_Witness ==
    /\ diskReads = <<"sponsored_display">>
    /\ "sponsored_display" \in DOMAIN cache
    /\ files.sponsored_display.kind = "table"
    /\ _normalize_columns(files.sponsored_display.df) # cache.sponsored_display
    /\ lastCall # NoCall
    /\ lastCall.op = "campaign"
    /\ lastCall.dataset_names = <<"sponsored_display">>
    /\ lastResult =
          _compute_campaign_metrics(<<"sponsored_display">>, "spend", FALSE, MaxLimit,
              EmptyCache, [files EXCEPT !.sponsored_display =
                              Table(cache.sponsored_display)]).result
    /\ lastResult #
          _compute_campaign_metrics(<<"sponsored_display">>, "spend", FALSE, MaxLimit,
              EmptyCache, files).result

-----------------------------------------------------------------------------
(* src/agents/insights_agent.py: _summarize_metrics_bundle *)

\* the entities of a category: two names, amounts with ties
SummaryEntities ==
    [campaign_metrics |->
        {[campaign_id |-> Str(n), spend |-> s, sales |-> v] :
            n \in {"C1", "C2"}, s \in 0..1, v \in 0..1},
     product_metrics |->
        {[asin |-> Str(n), spend |-> s, sales |-> v] :
            n \in {"A1", "A2"}, s \in 0..1, v \in 0..1},
     search_term_metrics |->
        {[search_term |-> Str(n), campaign_id |-> Str("C1"), spend |-> s, sales |-> v] :
            n \in {"t1", "t2"}, s \in 0..1, v \in 0..1}]

\* bundle.model_dump(): one category filled with up to MaxEntities entities
BundleData ==
    UNION {{[c \in DOMAIN SummaryEntities |-> IF c = category THEN list ELSE <<>>]
            @@ [report_metadata |-> [start_date |-> None, end_date |-> None],
                account_summary |-> DefaultAccountSummary] :
               list \in UNION {[1..k -> SummaryEntities[category]] : k \in 0..MaxEntities}} :
           category \in DOMAIN SummaryEntities}

\* the loop over by_spend + by_sales with the `seen` set left out
Deduplicate_mut(items) == items

\* the loop over by_spend + by_sales: the first item of each
\* (search_term, campaign_id) is kept
Deduplicate(items) ==
    SelectSeq([i \in 1..Len(items) |->
                  IF \E j \in 1..(i - 1) :
                        /\ items[j].search_term = items[i].search_term
                        /\ items[j].campaign_id = items[i].campaign_id
                  THEN None ELSE items[i]],
              LAMBDA x : x # None)

\* sorted(items, key=x[field], reverse=True)[:n]
Top(items, field, n) == Slice(sorted(items, field, FALSE, <<>>), n)

\* n is the 50 of the code
_summarize_metrics_bundle(data, n) ==
    [report_metadata |-> data.report_metadata,
     account_summary |-> data.account_summary,
     campaign_metrics |-> Top(data.campaign_metrics, "spend", n),
     product_metrics |-> Top(data.product_metrics, "sales", n),
     search_term_metrics |->
        Deduplicate(Top(data.search_term_metrics, "spend", n)
                    \o Top(data.search_term_metrics, "sales", n)),
     _note |-> "Data truncated to top performing/spending entities for analysis context."]

SummarizeMetricsBundle ==
    /\ lastCall = NoCall
    /\ \E data \in BundleData :
          /\ lastCall' = [op |-> "_summarize_metrics_bundle", data |-> data]
          /\ lastResult' = _summarize_metrics_bundle(data, TopN)
    /\ UNCHANGED <<files, cache, diskReads, wfVars>>

SummarySpec == ResolveInit /\ [][SummarizeMetricsBundle]_vars

Summarized == lastCall # NoCall /\ lastCall.op = "_summarize_metrics_bundle"

\* the entities of a list ranked strictly above e by a field
Above(list, e, field) == {i \in 1..Len(list) : list[i][field] > e[field]}

\* C28 as stated: the summary keeps at most TopN (50) entities in each
\* category, no two kept entities of a category sharing their identity key.
C28_Original_AtMostTopNPerCategory ==
    Summarized =>
        /\ Len(lastResult.campaign_metrics) <= TopN
        /\ Len(lastResult.product_metrics) <= TopN
        /\ Len(lastResult.search_term_metrics) <= TopN
        /\ \A i, j \in 1..Len(lastResult.search_term_metrics) :
              (/\ lastResult.search_term_metrics[i].search_term =
                     lastResult.search_term_metrics[j].search_term
               /\ lastResult.search_term_metrics[i].campaign_id =
                     lastResult.search_term_metrics[j].campaign_id) => i = j

\* C28 amended: the summary keeps the top TopN (50) campaigns by spend and
\* the top TopN products by sales; of the search terms it keeps those among
\* the top TopN by spend or the top TopN by sales, at most 2 * TopN (100) of
\* them, no two with the same search term and campaign id.
C28_TopNPerRanking ==
    Summarized =>
        /\ Len(lastResult.campaign_metrics) =
              IF Len(lastCall.data.campaign_metrics) < TopN
              THEN Len(lastCall.data.campaign_metrics) ELSE TopN
        /\ \A i \in 1..Len(lastResult.campaign_metrics) :
              /\ lastResult.campaign_metrics[i] \in SeqToSet(lastCall.data.campaign_metrics)
              /\ Cardinality(Above(lastCall.data.campaign_metrics,
                                   lastResult.campaign_metrics[i], "spend")) < TopN
        /\ Len(lastResult.product_metrics) =
              IF Len(lastCall.data.product_metrics) < TopN
              THEN Len(lastCall.data.product_metrics) ELSE TopN
        /\ \A i \in 1..Len(lastResult.product_metrics) :
              /\ lastResult.product_metrics[i] \in SeqToSet(lastCall.data.product_metrics)
              /\ Cardinality(Above(lastCall.data.product_metrics,
                                   lastResult.product_metrics[i], "sales")) < TopN
        /\ Len(lastResult.search_term_metrics) <= 2 * TopN
        /\ (lastCall.data.search_term_metrics # <<>>)
              => (lastResult.search_term_metrics # <<>>)
        /\ \A i \in 1..Len(lastResult.search_term_metrics) :
              /\ lastResult.search_term_metrics[i]
                    \in SeqToSet(lastCall.data.search_term_metrics)
              /\ \/ Cardinality(Above(lastCall.data.search_term_metrics,
                                      lastResult.search_term_metrics[i], "spend")) < TopN
                 \/ Cardinality(Above(lastCall.data.search_term_metrics,
                                      lastResult.search_term_metrics[i], "sales")) < TopN
        /\ \A i, j \in 1..Len(lastResult.search_term_metrics) :
              (/\ lastResult.search_term_metrics[i].search_term =
                     lastResult.search_term_metrics[j].search_term
               /\ lastResult.search_term_metrics[i].campaign_id =
                     lastResult.search_term_metrics[j].campaign_id) => i = j

\* C28 witness: more search terms than TopN, the top by spend and the top by
\* sales are different terms, and both are kept.
C28_Witness ==
    /\ Summarized
    /\ Len(lastCall.data.search_term_metrics) > 2 * TopN
    /\ Len(lastResult.search_term_metrics) = 2 * TopN
    /\ Len(lastResult.search_term_metrics) < Len(lastCall.data.search_term_metrics)

\* the step is a call of _load_dataframe
IsLoadStep ==
    /\ files' = files
    /\ lastCall' # NoCall
    /\ lastCall'.op = "_load_dataframe"

\* C29: a load that raises (unknown name, missing file, unreadable file)
\* leaves the data cache as it was; in no load or aggregation does a key get
\* cached other than with the table of its readable file; and a load of a
\* key that is not cached, its file readable by now, reads the file and
\* returns its table.
C29_FailedLoadLeavesCache ==
    [][/\ (IsLoadStep /\ lastResult'.kind = "raise") => (cache' = cache)
       /\ (files' = files) =>
             \A k \in DOMAIN cache' :
                 IF k \in DOMAIN cache THEN cache'[k] = cache[k]
                 ELSE /\ files[k].kind = "table"
                      /\ cache'[k] = _normalize_columns(files[k].df)
       /\ (/\ IsLoadStep
           /\ DatasetKeyTable[lastCall'.dataset_name] # None
           /\ DatasetKeyTable[lastCall'.dataset_name].val \notin DOMAIN cache
           /\ files[DatasetKeyTable[lastCall'.dataset_name].val].kind = "table")
              => /\ lastResult' =
                       Return(_normalize_columns(
                           files[DatasetKeyTable[lastCall'.dataset_name].val].df))
                 /\ diskReads' =
                       Append(diskReads, DatasetKeyTable[lastCall'.dataset_name].val)]_vars

\* C29 witness: sponsored_brands was loaded and cached, a load of the
\* unreadable sponsored_display file failed, the file was replaced, and a
\* later load read it again and returned its table; both are cached.
C29_Witness ==
    /\ diskReads = <<"sponsored_brands", "sponsored_display", "sponsored_display">>
    /\ DOMAIN cache = {"sponsored_brands", "sponsored_display"}
    /\ lastCall # NoCall
    /\ lastCall.op = "_load_dataframe"
    /\ files.sponsored_display.kind = "table"
    /\ lastResult = Return(_normalize_columns(files.sponsored_display.df))
    /\ cache.sponsored_display = _normalize_columns(files.sponsored_display.df)

-----------------------------------------------------------------------------
(* C30: only 'end' and registered names are accepted from the router *)

FallbackDecisions == {"metrics_agent", "insights_agent"}

\* C30: after decide_next_node has returned (the conditional edge is about
\* to act), a decision taken from an accepted advisory answer is 'end' or a
\* name in the registry and every other decision is the one of the fallback
\* rule; with an empty registry every decision is 'metrics_agent',
\* 'insights_agent' or 'end', the first two only from the fallback rule; and
\* the human node is entered only when an agent named 'human' is registered.
C30_OnlyRegisteredAnswersAccepted ==
    /\ (pc = "edge" /\ lastAdvice = "accepted") => decision \in registry \cup {"end"}
    /\ (pc = "edge" /\ lastAdvice # "accepted")
          => /\ lastAdvice \in {"error", "invalid"}
             /\ decision = fallback_decision(state)
    /\ (pc = "edge" /\ registry = {})
          => /\ decision \in FallbackDecisions \cup {"end"}
             /\ decision \in FallbackDecisions => lastAdvice # "accepted"
    /\ (registry = {}) => decision \in FallbackDecisions \cup {"end", "none"}
    /\ (pc = "human") => "human" \in registry

\* the router's answer 'human' was accepted with 'human' registered and the
\* human node is entered, in a run whose stages are otherwise unregistered
C30_Witness ==
    /\ pc = "human"
    /\ registry = {"human"}
    /\ decision = "human"
    /\ lastAdvice = "accepted"
    /\ state.metrics_bundle # None

====
